---- MODULE Spec2Model ----
(***************************************************************************)
(* BDNS scraper (src/scraper.py): the enumeration loop of BDNSScraper.run, *)
(* the fetcher, the row flattener, the year-partitioned buffer and the     *)
(* merge-persist store, as a state machine.                                *)
(***************************************************************************)
EXTENDS Integers, Sequences, FiniteSets, TLC

VARIABLES
    pc,                  \* position of the process inside run / the caller
    start_bdns,          \* self.start_bdns
    current_bdns,        \* self.current_bdns
    consecutive_404s,    \* self.consecutive_404s
    total_records,       \* self.total_records
    total_requests,      \* self.total_requests
    dataframes_by_year,  \* self.dataframes_by_year: ordered dict, <<[year, df]>>
    disk,                \* DATA_DIR: year -> rows of bdns_<year>.parquet
    data,                \* run's local `data`: <<>> (None) or <<record>>
    todo,                \* years still to visit in the running for-loop
    stopped,             \* why run left its loop ("Running" while inside)
    last_fetch,          \* outcome of the latest fetch ("none" before any)
    streak_nonfound,     \* non-Found outcomes since the latest Found (or start)
    streak_404,          \* HTTP 404 outcomes since the latest HTTP 200 (or start)
    lookups,             \* fetch_convocatoria calls issued
    at_stop,             \* dataframes_by_year when run left its loop
    flush_log,           \* save_to_parquet calls made with a non-empty buffer
    faults,              \* transient errors and unusable 200 bodies seen so far
    calls,               \* calls made by a caller that drives the methods directly
    caller_rows,         \* the caller's `rows`, as returned by transform_data
    observed,            \* what the caller saw of each save: file before and after
    earlier_runs,        \* the runs that ended before the current scraper was created
    flushers,            \* the processes that save the same year at the same time
    dashboard,           \* the Streamlit script: its df, filters and filtered_df
    utility              \* the clean_data and check_progress scripts: position and output

vars == <<pc, current_bdns, consecutive_404s, total_records, total_requests,
          dataframes_by_year, disk, data, todo, stopped, last_fetch,
          streak_nonfound, streak_404, lookups, at_stop, flush_log, faults, calls,
          caller_rows, observed, start_bdns, earlier_runs, flushers,
          dashboard, utility>>

----------------------------------------------------------------------------
(* Program constants *)

START_BDNS == 747573
MAX_CONSECUTIVE_404 == 10
SAVE_EVERY == 100
FALLBACK_START == 600000
\* gap_ranges[:10]: the gaps check_progress prints
SHOWN_GAPS == 10

(* Bounds of the model *)

\* identifiers START_BDNS .. START_BDNS + MaxKnown - 1 may exist upstream: only
\* they are answered with HTTP 200
MaxKnown == 2
\* lookups a run may issue
MaxProbes == 12
\* transient errors (other status, network failure) the upstream produces
MaxTransient == 1
\* saves that fail because reading or writing the file raises
MaxSaveFailures == 1
\* add_rows calls a caller of the persistence methods makes
MaxCalls == 3
\* longest multi-valued field of the records handed to transform_data
MaxDimLen == 2
\* runs started by the resume script after a run has ended
MaxResumes == 1
\* records a data file of the utility scripts was written from
MaxFileRecords == 2
\* times clean_data.py is run in a row
MaxCleanRuns == 2

----------------------------------------------------------------------------
(* Python values *)

NoneStr == "None"
NoneInt == 0
NoneDate == <<"None">>

IntFields == {"id", "codigoBDNS", "year"}
DateFields == {"fechaRecepcion"}

NoneOf(k) ==
    IF k \in IntFields THEN NoneInt
    ELSE IF k \in DateFields THEN NoneDate
    ELSE NoneStr

\* dict.get(k): the value, or None
Get(d, k) == IF k \in DOMAIN d THEN d[k] ELSE NoneOf(k)

\* dict.get(k, default)
GetOr(d, k, default) == IF k \in DOMAIN d THEN d[k] ELSE default

EmptyDict == [k \in {} |-> NoneStr]

\* a JSON object lists under this key the fields whose value is null; such a
\* field is not in the DOMAIN of the object, so that d.get(k) is None
NULLS == "null"

\* d[k] is None
IsNull(d, k) == NULLS \in DOMAIN d /\ k \in d[NULLS]

Range(s) == {s[i] : i \in DOMAIN s}

----------------------------------------------------------------------------
(* datetime.strptime(s, '%Y-%m-%d').year; strings are sequences of characters *)

Digits == {"0", "1", "2", "3", "4", "5", "6", "7", "8", "9"}

DigitVal ==
    ("0" :> 0) @@ ("1" :> 1) @@ ("2" :> 2) @@ ("3" :> 3) @@ ("4" :> 4) @@
    ("5" :> 5) @@ ("6" :> 6) @@ ("7" :> 7) @@ ("8" :> 8) @@ ("9" :> 9)

IsDigits(s) == s # <<>> /\ \A i \in DOMAIN s : s[i] \in Digits

RECURSIVE NumVal(_)
NumVal(s) ==
    IF s = <<>> THEN 0
    ELSE 10 * NumVal(SubSeq(s, 1, Len(s) - 1)) + DigitVal[s[Len(s)]]

IsLeap(y) == (y % 4 = 0 /\ y % 100 # 0) \/ y % 400 = 0

DaysInMonth(y, m) ==
    IF m = 2 THEN (IF IsLeap(y) THEN 29 ELSE 28)
    ELSE IF m \in {4, 6, 9, 11} THEN 30
    ELSE 31

\* the position of the dash that ends the month, 0 when the text does not
\* have the shape <4 digits>-<1 or 2 digits>-<1 or 2 digits>
SecondDash(s) ==
    IF Len(s) < 8 \/ Len(s) > 10 THEN 0
    ELSE IF ~IsDigits(SubSeq(s, 1, 4)) \/ s[5] # "-" THEN 0
    ELSE IF s[7] = "-" THEN 7
    ELSE IF s[8] = "-" THEN 8
    ELSE 0

\* the year of the parsed date, NoneInt when strptime raises ValueError
StrptimeYear(s) ==
    LET p == SecondDash(s) IN
    IF p = 0 THEN NoneInt
    ELSE LET ms == SubSeq(s, 6, p - 1)
             ds == SubSeq(s, p + 1, Len(s))
         IN  IF ~IsDigits(ms) \/ ~IsDigits(ds) \/ Len(ds) > 2 THEN NoneInt
             ELSE LET y == NumVal(SubSeq(s, 1, 4))
                      m == NumVal(ms)
                      d == NumVal(ds)
                  IN  IF y >= 1 /\ m \in 1..12 /\ d >= 1 /\ d <= DaysInMonth(y, m)
                      THEN y
                      ELSE NoneInt

----------------------------------------------------------------------------
(* BDNSScraper.transform_data *)

BaseFields ==
    {"id", "codigoBDNS", "fechaRecepcion", "sedeElectronica", "tipoConvocatoria",
     "presupuestoTotal", "mrr", "descripcion", "descripcionLeng",
     "descripcionFinalidad", "descripcionBasesReguladoras", "urlBasesReguladoras",
     "sePublicaDiarioOficial", "abierto", "fechaInicioSolicitud",
     "fechaFinSolicitud", "textInicio", "textFin"}

DimensionColumns ==
    {"instrumento_descripcion", "tipoBeneficiario_descripcion",
     "sector_descripcion", "sector_codigo", "region_descripcion"}

\* bool(x) of a string-valued date field
TruthyDate(x) == x # NoneDate /\ x # <<>>

\* variant: a record without a usable date is filed under 2024
YearOf_DefaultYear(fechaRecepcion) ==
    IF TruthyDate(fechaRecepcion) /\ StrptimeYear(fechaRecepcion) # NoneInt
    THEN StrptimeYear(fechaRecepcion)
    ELSE 2024

YearOf(fechaRecepcion) ==
    IF TruthyDate(fechaRecepcion) THEN StrptimeYear(fechaRecepcion) ELSE NoneInt

\* variant: an empty list is not replaced by [{}]
Dimension_NoEmptyDefault(d, k) == GetOr(d, k, <<EmptyDict>>)

\* data.get(k, [{}]) followed by `if not xs: xs = [{}]`
Dimension(d, k) ==
    LET xs == GetOr(d, k, <<EmptyDict>>)
    IN  IF xs = <<>> THEN <<EmptyDict>> ELSE xs

BaseData(d) ==
    LET organo == GetOr(d, "organo", EmptyDict) IN
    [k \in BaseFields |-> Get(d, k)]
        @@ ("organo_nivel1" :> Get(organo, "nivel1"))
        @@ ("organo_nivel2" :> Get(organo, "nivel2"))
        @@ ("organo_nivel3" :> Get(organo, "nivel3"))
        @@ ("year" :> YearOf(Get(d, "fechaRecepcion")))

\* variant: the region column is set only for a region that has a description
MakeRow_RegionWhenPresent(base, inst, benef, sector, region) ==
    base
        @@ ("instrumento_descripcion" :> Get(inst, "descripcion"))
        @@ ("tipoBeneficiario_descripcion" :> Get(benef, "descripcion"))
        @@ ("sector_descripcion" :> Get(sector, "descripcion"))
        @@ ("sector_codigo" :> Get(sector, "codigo"))
        @@ (IF "descripcion" \in DOMAIN region
            THEN "region_descripcion" :> region.descripcion
            ELSE EmptyDict)

\* one row of the product: base_data.copy() plus the dimension columns
MakeRow(base, inst, benef, sector, region) ==
    base
        @@ ("instrumento_descripcion" :> Get(inst, "descripcion"))
        @@ ("tipoBeneficiario_descripcion" :> Get(benef, "descripcion"))
        @@ ("sector_descripcion" :> Get(sector, "descripcion"))
        @@ ("sector_codigo" :> Get(sector, "codigo"))
        @@ ("region_descripcion" :> Get(region, "descripcion"))

\* organo.get('nivel1') raises AttributeError when organo is None
TransformRaises(d) == IsNull(d, "organo")

\* itertools.product order: the last sequence varies fastest
transform_data(d) ==
    LET base == BaseData(d)
        is == Dimension(d, "instrumentos")
        bs == Dimension(d, "tiposBeneficiarios")
        ss == Dimension(d, "sectores")
        rs == Dimension(d, "regiones")
        nb == Len(bs)
        ns == Len(ss)
        nr == Len(rs)
    IN  [k \in 1..(Len(is) * nb * ns * nr) |->
            MakeRow(base,
                    is[((k - 1) \div (nb * ns * nr)) + 1],
                    bs[(((k - 1) \div (ns * nr)) % nb) + 1],
                    ss[(((k - 1) \div nr) % ns) + 1],
                    rs[((k - 1) % nr) + 1])]

----------------------------------------------------------------------------
(* self.dataframes_by_year: a dict in insertion order, year -> DataFrame *)

\* variant: the iteration misses the last key
Keys_DropLast(dfs) == [i \in 1..(Len(dfs) - 1) |-> dfs[i].year]

Keys(dfs) == [i \in DOMAIN dfs |-> dfs[i].year]

HasYear(dfs, y) == \E i \in DOMAIN dfs : dfs[i].year = y

DfOf(dfs, y) == dfs[CHOOSE i \in DOMAIN dfs : dfs[i].year = y].df

SetDf(dfs, y, df) ==
    IF HasYear(dfs, y)
    THEN [i \in DOMAIN dfs |-> IF dfs[i].year = y THEN [year |-> y, df |-> df] ELSE dfs[i]]
    ELSE Append(dfs, [year |-> y, df |-> df])

\* `not df.empty` for a year of the dict
NonEmpty(dfs, y) == HasYear(dfs, y) /\ DfOf(dfs, y) # <<>>

----------------------------------------------------------------------------
(* BDNSScraper.add_rows *)

\* `if year:` on row.get('year')
TruthyYear(row) == Get(row, "year") # NoneInt

\* a sequence with each element paired with its position
Indexed(xs) == [i \in DOMAIN xs |-> [i |-> i, x |-> xs[i]]]

Unindexed(es) == [k \in DOMAIN es |-> es[k].x]

\* the keys of rows_by_year, in the order add_rows inserts them
GroupYears(rows) ==
    LET first == SelectSeq(Indexed(rows),
                     LAMBDA e : /\ TruthyYear(e.x)
                                /\ \A j \in 1..(e.i - 1) :
                                       ~(TruthyYear(rows[j]) /\ rows[j].year = e.x.year))
    IN  [k \in DOMAIN first |-> first[k].x.year]

RowsOfYear(rows, y) == SelectSeq(rows, LAMBDA r : TruthyYear(r) /\ r.year = y)

\* pd.concat([self.dataframes_by_year[year], new_df]) for every group
RECURSIVE AddGroups(_, _, _)
AddGroups(dfs, rows, years) ==
    IF years = <<>> THEN dfs
    ELSE LET y == Head(years)
             old == IF HasYear(dfs, y) THEN DfOf(dfs, y) ELSE <<>>
         IN  AddGroups(SetDf(dfs, y, old \o RowsOfYear(rows, y)), rows, Tail(years))

add_rows(dfs, rows) == AddGroups(dfs, rows, GroupYears(rows))

\* variant: every row is counted, also those without a year
AddedRecords_CountAll(rows) == Len(rows)

\* what add_rows adds to self.total_records
AddedRecords(rows) == Len(SelectSeq(rows, TruthyYear))

----------------------------------------------------------------------------
(* BDNSScraper.save_to_parquet *)

\* DataFrame.drop_duplicates(subset=['codigoBDNS'], keep='last')
\* variant: keep='first'
drop_duplicates_KeepFirst(df) ==
    Unindexed(SelectSeq(Indexed(df),
                  LAMBDA e : \A j \in 1..(e.i - 1) :
                                 df[j].codigoBDNS # e.x.codigoBDNS))

\* variant: keep=False, every row whose identifier occurs twice is dropped
drop_duplicates_KeepNone(df) ==
    SelectSeq(df, LAMBDA r : Cardinality({j \in DOMAIN df : df[j].codigoBDNS = r.codigoBDNS}) = 1)

drop_duplicates(df) ==
    Unindexed(SelectSeq(Indexed(df),
                  LAMBDA e : \A j \in (e.i + 1)..Len(df) :
                                 df[j].codigoBDNS # e.x.codigoBDNS))

\* variant: only a year that is not in the dict returns early
SaveProceeds_WhenPresent(dfs, y) == HasYear(dfs, y)

\* the early return of save_to_parquet does not happen
SaveProceeds(dfs, y) == NonEmpty(dfs, y)

\* variant: the merge does not remove duplicates
FileAfterSave_NoDedupe(d, y, df) ==
    IF y \in DOMAIN d THEN d[y] \o df ELSE df

\* variant: the merge concatenates the new rows before the existing ones
FileAfterSave_NewThenExisting(d, y, df) ==
    IF y \in DOMAIN d THEN drop_duplicates(df \o d[y]) ELSE df

\* variant: the file is overwritten with the new rows only
FileAfterSave_NewOnly(d, y, df) == drop_duplicates(df)

\* the rows written to bdns_<year>.parquet by a save that does not raise
FileAfterSave(d, y, df) ==
    IF y \in DOMAIN d
    THEN drop_duplicates(d[y] \o df)
    ELSE df

\* variant: every year is written to the file of 2024
DiskAfterSave_OneFile(d, y, df) == (2024 :> FileAfterSave(d, 2024, df)) @@ d

\* the files after a save of year y that does not raise
DiskAfterSave(d, y, df) == (y :> FileAfterSave(d, y, df)) @@ d

\* variant: the buffer is cleared whether or not the save raised
BufferAfterSave_AlwaysClear(df, ok) == <<>>

\* self.dataframes_by_year[year] after a save: cleared at the end of the try
\* block, untouched when the block raised
BufferAfterSave(df, ok) == IF ok THEN <<>> ELSE df

FileOf(d, y) == IF y \in DOMAIN d THEN d[y] ELSE <<>>

\* one entry of flush_log
FlushEntry(phase, d, dfs, y, ok) ==
    [phase |-> phase, year |-> y, ok |-> ok, existed |-> y \in DOMAIN d,
     bdns |-> current_bdns]

SaveFailures(log) == Len(SelectSeq(log, LAMBDA e : ~e.ok))

\* variant: a save that does not raise clears the buffers of all years
SaveResult_ClearAll(st, phase, y, ok) ==
    IF SaveProceeds(st.dfs, y)
    THEN [dfs |-> IF ok
                  THEN [i \in DOMAIN st.dfs |-> [year |-> st.dfs[i].year, df |-> <<>>]]
                  ELSE st.dfs,
          disk |-> IF ok THEN DiskAfterSave(st.disk, y, DfOf(st.dfs, y)) ELSE st.disk,
          log |-> Append(st.log, FlushEntry(phase, st.disk, st.dfs, y, ok))]
    ELSE st

\* save_to_parquet(y) on the buffers, the files and the log of st; ok = FALSE
\* when reading or writing the file raises
SaveResult(st, phase, y, ok) ==
    IF SaveProceeds(st.dfs, y)
    THEN [dfs |-> SetDf(st.dfs, y, BufferAfterSave(DfOf(st.dfs, y), ok)),
          disk |-> IF ok THEN DiskAfterSave(st.disk, y, DfOf(st.dfs, y)) ELSE st.disk,
          log |-> Append(st.log, FlushEntry(phase, st.disk, st.dfs, y, ok))]
    ELSE st

SaveState == [dfs |-> dataframes_by_year, disk |-> disk, log |-> flush_log]

save_to_parquet(phase, y, ok) ==
    /\ IF SaveProceeds(dataframes_by_year, y)
       THEN ok \/ SaveFailures(flush_log) < MaxSaveFailures
       ELSE ok
    /\ LET st == SaveResult(SaveState, phase, y, ok)
       IN  /\ dataframes_by_year' = st.dfs
           /\ disk' = st.disk
           /\ flush_log' = st.log

\* for year in keys: if not empty: save_to_parquet(year); the saves of the
\* years in `failing` raise
RECURSIVE SaveAll(_, _, _, _)
SaveAll(st, phase, keys, failing) ==
    IF keys = <<>> THEN st
    ELSE SaveAll(IF NonEmpty(st.dfs, Head(keys))
                 THEN SaveResult(st, phase, Head(keys), Head(keys) \notin failing)
                 ELSE st,
                 phase, Tail(keys), failing)

----------------------------------------------------------------------------
(* The upstream API: what GET ...?numConv=<bdns> may answer *)

Date20240315 == <<"2", "0", "2", "4", "-", "0", "3", "-", "1", "5">>
Date20250110 == <<"2", "0", "2", "5", "-", "0", "1", "-", "1", "0">>
DateSlashes  == <<"1", "5", "/", "0", "3", "/", "2", "0", "2", "4">>

Names7 == <<"n1", "n2", "n3", "n4", "n5", "n6", "n7">>

Described(names) == [i \in DOMAIN names |-> [descripcion |-> names[i]]]

\* the record of the end-to-end scenario: 2 x 1 x 1 x 1 rows, year 2024
ExampleRecord(bdns, ver) ==
    [id |-> bdns, codigoBDNS |-> bdns, fechaRecepcion |-> Date20240315,
     descripcion |-> ver, presupuestoTotal |-> "230000", abierto |-> "true",
     organo |-> [nivel1 |-> "ESTADO", nivel2 |-> "MINISTERIO"],
     instrumentos |-> Described(<<"Subvencion", "Prestamo">>),
     tiposBeneficiarios |-> Described(<<"PYME">>),
     sectores |-> <<>>,
     regiones |-> Described(<<"Madrid">>)]

\* a record with many combinations: 7 x 7 x 2 x 1 = 98 rows, year 2025
WideRecord(bdns, ver) ==
    [id |-> bdns, codigoBDNS |-> bdns, fechaRecepcion |-> Date20250110,
     descripcion |-> ver,
     instrumentos |-> Described(Names7),
     tiposBeneficiarios |-> Described(Names7),
     sectores |-> <<[descripcion |-> "s1", codigo |-> "A"],
                    [descripcion |-> "s2", codigo |-> "B"]>>]

\* a record with no multi-valued field: 1 row, year 2024
PlainRecord(bdns, ver) ==
    [id |-> bdns, codigoBDNS |-> bdns, fechaRecepcion |-> Date20240315,
     descripcion |-> ver]

\* a record of one row with the given reception date
DatedRecord(bdns, ver, date) ==
    [id |-> bdns, codigoBDNS |-> bdns, fechaRecepcion |-> date, descripcion |-> ver]

\* records without a usable reception date
UndatedRecord(bdns, ver) == [id |-> bdns, codigoBDNS |-> bdns, descripcion |-> ver]

BadDateRecord(bdns, ver) ==
    [id |-> bdns, codigoBDNS |-> bdns, fechaRecepcion |-> DateSlashes,
     descripcion |-> ver, regiones |-> Described(<<"Madrid">>)]

\* a record whose institution object is null
NullOrganoRecord(bdns, ver) ==
    [id |-> bdns, codigoBDNS |-> bdns, fechaRecepcion |-> Date20240315,
     descripcion |-> ver, null |-> {"organo"}]

Catalogue(bdns) ==
    {ExampleRecord(bdns, "v2"), WideRecord(bdns, "v2"), BadDateRecord(bdns, "v2"),
     UndatedRecord(bdns, "v2"), NullOrganoRecord(bdns, "v2")}

Known(bdns) == bdns >= START_BDNS /\ bdns < START_BDNS + MaxKnown

\* raises: requests.get raised a RequestException; json = <<>>: the body does
\* not parse; json = <<d>>: the body parses to d
Response(raises, status_code, json) ==
    [raises |-> raises, status_code |-> status_code, json |-> json]

Responses(bdns) ==
    {Response(FALSE, 404, <<>>)}
    \cup {Response(TRUE, 0, <<>>), Response(FALSE, 500, <<>>)}
    \cup (IF Known(bdns)
          THEN {Response(FALSE, 200, <<d>>) : d \in Catalogue(bdns)}
               \cup {Response(FALSE, 200, <<>>), Response(FALSE, 200, <<EmptyDict>>)}
          ELSE {})

\* bool(data) of run's `if data:`
Truthy(d) == d # <<>> /\ DOMAIN d[1] # {}

\* the outcome classes of the fetcher
Outcome(resp) ==
    IF resp.raises THEN "TransientError"
    ELSE IF resp.status_code = 404 THEN "NotFound"
    ELSE IF resp.status_code # 200 THEN "TransientError"
    ELSE IF Truthy(resp.json) THEN "Found"
    ELSE "BadBody"

----------------------------------------------------------------------------
(* BDNSScraper.fetch_convocatoria *)

\* the value returned
FetchData(resp) ==
    IF resp.raises THEN <<>>
    ELSE IF resp.status_code = 404 THEN <<>>
    ELSE IF resp.status_code = 200 THEN resp.json
    ELSE <<>>

\* variant: every outcome other than HTTP 200 counts
FetchConsecutive404s_CountAll(c, resp) ==
    IF ~resp.raises /\ resp.status_code = 200 THEN 0 ELSE c + 1

\* variant: a transient error resets the counter
FetchConsecutive404s_ResetOnError(c, resp) ==
    IF ~resp.raises /\ resp.status_code = 404 THEN c + 1 ELSE 0

\* variant: only a 200 response that delivers a record resets the counter
FetchConsecutive404s_ResetOnRecord(c, resp) ==
    IF resp.raises THEN c
    ELSE IF resp.status_code = 404 THEN c + 1
    ELSE IF Outcome(resp) = "Found" THEN 0
    ELSE c

\* self.consecutive_404s after the call
FetchConsecutive404s(c, resp) ==
    IF resp.raises THEN c
    ELSE IF resp.status_code = 404 THEN c + 1
    ELSE IF resp.status_code = 200 THEN 0
    ELSE c

\* variant: a response other than HTTP 200 is asked for a second time
FetchTotalRequests_Retry(n, resp) ==
    IF resp.raises THEN n ELSE IF resp.status_code = 200 THEN n + 1 ELSE n + 2

\* self.total_requests after the call
FetchTotalRequests(n, resp) == IF resp.raises THEN n ELSE n + 1

----------------------------------------------------------------------------
(* BDNSScraper.__init__ and the data directory it finds *)

EmptyDisk == [y \in {} |-> <<>>]

\* what an earlier run that started one identifier lower and found the example
\* record twice left behind: its final save created bdns_2024.parquet
EarlierRunDisk ==
    2024 :> (transform_data(ExampleRecord(START_BDNS - 1, "v1"))
             \o transform_data(ExampleRecord(START_BDNS, "v1")))

DataDirs == {EmptyDisk, EarlierRunDisk}

NoFaults == [transient |-> 0, badbody |-> 0]

\* the Streamlit script before it runs; pd.DataFrame() is <<>>
NoDashboard == [pc |-> "off", df |-> <<>>, filters |-> EmptyDict, filtered_df |-> <<>>]

\* the utility scripts before they run: the files still to process, the
\* files written, what was counted, the data directory at the start and at
\* the end of each run, and what was printed and returned
NoUtility ==
    [pc |-> "off", files |-> <<>>, written |-> <<>>, total_removed |-> 0,
     runs |-> 0, starts |-> <<>>, ends |-> <<>>, report |-> EmptyDict]

Constructed(start) ==
    /\ start_bdns = start
    /\ current_bdns = start
    /\ consecutive_404s = 0
    /\ dataframes_by_year = <<>>
    /\ total_records = 0
    /\ total_requests = 0
    /\ todo = <<>>
    /\ stopped = "Running"
    /\ last_fetch = "none"
    /\ streak_nonfound = 0
    /\ streak_404 = 0
    /\ lookups = 0
    /\ at_stop = <<>>
    /\ flush_log = <<>>
    /\ faults = NoFaults
    /\ calls = 0
    /\ caller_rows = <<>>
    /\ observed = <<>>

Init ==
    /\ pc = "loop"
    /\ disk \in DataDirs
    /\ data = <<>>
    /\ earlier_runs = <<>>
    /\ flushers = <<>>
    /\ dashboard = NoDashboard
    /\ utility = NoUtility
    /\ Constructed(START_BDNS)

----------------------------------------------------------------------------
(* BDNSScraper.run *)

\* variant: the loop has no threshold
LoopCondition_Forever(c) == c >= 0

\* the while condition
LoopCondition(c) == c < MAX_CONSECUTIVE_404

\* the condition of the periodic save
PeriodicSaveDue(n) == n > 0 /\ n % SAVE_EVERY = 0

WithinFaultBounds(resp) ==
    Outcome(resp) = "TransientError" => faults.transient < MaxTransient

CountFault(f, resp) ==
    [transient |-> f.transient + (IF Outcome(resp) = "TransientError" THEN 1 ELSE 0),
     badbody |-> f.badbody + (IF Outcome(resp) = "BadBody" THEN 1 ELSE 0)]

\* data = self.fetch_convocatoria(self.current_bdns)
Fetch ==
    /\ pc = "loop"
    /\ LoopCondition(consecutive_404s)
    /\ lookups < MaxProbes
    /\ \E resp \in Responses(current_bdns) :
        /\ WithinFaultBounds(resp)
        /\ data' = FetchData(resp)
        /\ consecutive_404s' = FetchConsecutive404s(consecutive_404s, resp)
        /\ total_requests' = FetchTotalRequests(total_requests, resp)
        /\ last_fetch' = Outcome(resp)
        /\ streak_nonfound' = IF Outcome(resp) = "Found" THEN 0 ELSE streak_nonfound + 1
        /\ streak_404' = IF Outcome(resp) = "NotFound" THEN streak_404 + 1
                         ELSE IF ~resp.raises /\ resp.status_code = 200 THEN 0
                         ELSE streak_404
        /\ faults' = CountFault(faults, resp)
    /\ lookups' = lookups + 1
    /\ pc' = "fetched"
    /\ UNCHANGED <<start_bdns, earlier_runs, flushers, dashboard, utility, current_bdns, total_records,
                   dataframes_by_year, disk, todo, stopped, at_stop, flush_log,
                   calls, caller_rows, observed>>

\* variant: the saves are in the except clause, so an exception other than
\* KeyboardInterrupt ends run without them
EnterFinally_ExceptClauseOnly(reason) ==
    /\ stopped' = reason
    /\ pc' = IF reason = "Crashed" THEN "done" ELSE "finally"
    /\ todo' = IF reason = "Crashed" THEN <<>> ELSE Keys(dataframes_by_year)
    /\ at_stop' = dataframes_by_year
    /\ UNCHANGED <<start_bdns, earlier_runs, flushers, dashboard, utility, current_bdns, consecutive_404s,
                   total_records, total_requests,
                   dataframes_by_year, disk, data, last_fetch, streak_nonfound,
                   streak_404, lookups, flush_log, faults, calls, caller_rows, observed>>

\* the try block is left: the finally block is next
EnterFinally(reason) ==
    /\ stopped' = reason
    /\ pc' = "finally"
    /\ todo' = Keys(dataframes_by_year)
    /\ at_stop' = dataframes_by_year
    /\ UNCHANGED <<start_bdns, earlier_runs, flushers, dashboard, utility, current_bdns, consecutive_404s,
                   total_records, total_requests,
                   dataframes_by_year, disk, data, last_fetch, streak_nonfound,
                   streak_404, lookups, flush_log, faults, calls, caller_rows, observed>>

\* if data: rows = transform_data(data); add_rows(rows); test of the periodic
\* save; an exception of transform_data leaves the try block for the finally
\* block and run raises it after the final saves
Buffer ==
    /\ pc = "fetched"
    /\ IF Truthy(data) /\ TransformRaises(data[1])
       THEN EnterFinally("Crashed")
       ELSE /\ IF Truthy(data)
               THEN LET rows == transform_data(data[1])
                        total == total_records + AddedRecords(rows)
                        dfs == add_rows(dataframes_by_year, rows)
                    IN  /\ dataframes_by_year' = dfs
                        /\ total_records' = total
                        /\ IF PeriodicSaveDue(total)
                           THEN pc' = "saving" /\ todo' = Keys(dfs)
                           ELSE pc' = "advance" /\ todo' = <<>>
               ELSE /\ pc' = "advance"
                    /\ UNCHANGED <<dataframes_by_year, total_records, todo>>
            /\ UNCHANGED <<start_bdns, earlier_runs, flushers, dashboard, utility, current_bdns, consecutive_404s,
                           total_requests, disk, data, stopped, last_fetch,
                           streak_nonfound, streak_404, lookups, at_stop, flush_log,
                           faults, calls, caller_rows, observed>>

\* variant: a save that raises ends the for-loop of the periodic save
PeriodicSave_AbortOnFailure ==
    /\ pc = "saving"
    /\ IF todo = <<>>
       THEN /\ pc' = "advance"
            /\ UNCHANGED <<dataframes_by_year, disk, flush_log, todo>>
       ELSE /\ IF NonEmpty(dataframes_by_year, Head(todo))
               THEN \E ok \in BOOLEAN :
                       /\ save_to_parquet("periodic", Head(todo), ok)
                       /\ todo' = IF ok THEN Tail(todo) ELSE <<>>
               ELSE /\ UNCHANGED <<dataframes_by_year, disk, flush_log>>
                    /\ todo' = Tail(todo)
            /\ pc' = "saving"
    /\ UNCHANGED <<start_bdns, earlier_runs, flushers, dashboard, utility, current_bdns, consecutive_404s,
                   total_records, total_requests,
                   data, stopped, last_fetch, streak_nonfound, streak_404, lookups,
                   at_stop, faults, calls, caller_rows, observed>>

\* one round of `for year in self.dataframes_by_year.keys()` of the periodic save
PeriodicSave ==
    /\ pc = "saving"
    /\ IF todo = <<>>
       THEN /\ pc' = "advance"
            /\ UNCHANGED <<dataframes_by_year, disk, flush_log, todo>>
       ELSE /\ IF NonEmpty(dataframes_by_year, Head(todo))
               THEN \E ok \in BOOLEAN : save_to_parquet("periodic", Head(todo), ok)
               ELSE UNCHANGED <<dataframes_by_year, disk, flush_log>>
            /\ todo' = Tail(todo)
            /\ pc' = "saving"
    /\ UNCHANGED <<start_bdns, earlier_runs, flushers, dashboard, utility, current_bdns, consecutive_404s,
                   total_records, total_requests,
                   data, stopped, last_fetch, streak_nonfound, streak_404, lookups,
                   at_stop, faults, calls, caller_rows, observed>>

\* variant: the cursor moves only after a record was returned
Advance_OnlyWhenFound ==
    /\ pc = "advance"
    /\ current_bdns' = IF Truthy(data) THEN current_bdns + 1 ELSE current_bdns
    /\ data' = <<>>
    /\ pc' = "loop"
    /\ UNCHANGED <<start_bdns, earlier_runs, flushers, dashboard, utility, consecutive_404s, total_records,
                   total_requests,
                   dataframes_by_year, disk, todo, stopped, last_fetch,
                   streak_nonfound, streak_404, lookups, at_stop, flush_log,
                   faults, calls, caller_rows, observed>>

\* self.current_bdns += 1
Advance ==
    /\ pc = "advance"
    /\ current_bdns' = current_bdns + 1
    /\ data' = <<>>
    /\ pc' = "loop"
    /\ UNCHANGED <<start_bdns, earlier_runs, flushers, dashboard, utility, consecutive_404s, total_records,
                   total_requests,
                   dataframes_by_year, disk, todo, stopped, last_fetch,
                   streak_nonfound, streak_404, lookups, at_stop, flush_log,
                   faults, calls, caller_rows, observed>>

\* data = self.fetch_convocatoria(self.current_bdns) when response.json()
\* raises an exception that is not a RequestException (requests before 2.27):
\* nothing catches it below run, whose finally block is next
FetchJsonRaises ==
    /\ pc = "loop"
    /\ LoopCondition(consecutive_404s)
    /\ lookups < MaxProbes
    /\ Response(FALSE, 200, <<>>) \in Responses(current_bdns)
    /\ LET resp == Response(FALSE, 200, <<>>)
       IN  /\ consecutive_404s' = FetchConsecutive404s(consecutive_404s, resp)
           /\ total_requests' = FetchTotalRequests(total_requests, resp)
           /\ last_fetch' = Outcome(resp)
           /\ faults' = CountFault(faults, resp)
    /\ streak_nonfound' = streak_nonfound + 1
    /\ streak_404' = 0
    /\ lookups' = lookups + 1
    /\ stopped' = "Crashed"
    /\ pc' = "finally"
    /\ todo' = Keys(dataframes_by_year)
    /\ at_stop' = dataframes_by_year
    /\ UNCHANGED <<start_bdns, earlier_runs, flushers, dashboard, utility, current_bdns, total_records,
                   dataframes_by_year, disk, data, flush_log, calls, caller_rows,
                   observed>>

\* the while condition is false
LoopExit ==
    /\ pc = "loop"
    /\ ~LoopCondition(consecutive_404s)
    /\ EnterFinally("MaxConsecutiveFailures")

\* variant: the interrupt ends run without the finally block
Interrupt_NoFinally ==
    /\ pc \in {"loop", "fetched", "saving", "advance"}
    /\ stopped' = "UserCancelled"
    /\ pc' = "done"
    /\ todo' = <<>>
    /\ at_stop' = dataframes_by_year
    /\ UNCHANGED <<start_bdns, earlier_runs, flushers, dashboard, utility, current_bdns, consecutive_404s,
                   total_records, total_requests, dataframes_by_year, disk, data,
                   last_fetch, streak_nonfound, streak_404, lookups, flush_log,
                   faults, calls, caller_rows, observed>>

\* KeyboardInterrupt raised anywhere inside the try block
Interrupt ==
    /\ pc \in {"loop", "fetched", "saving", "advance"}
    /\ EnterFinally("UserCancelled")

\* the for-loop of the finally block
FinalSave ==
    /\ pc = "finally"
    /\ \E failing \in SUBSET {y \in Range(todo) : NonEmpty(dataframes_by_year, y)} :
          /\ Cardinality(failing) + SaveFailures(flush_log) <= MaxSaveFailures
          /\ LET st == SaveAll(SaveState, "final", todo, failing)
             IN  /\ dataframes_by_year' = st.dfs
                 /\ disk' = st.disk
                 /\ flush_log' = st.log
    /\ todo' = <<>>
    /\ pc' = "done"
    /\ UNCHANGED <<start_bdns, earlier_runs, flushers, dashboard, utility, current_bdns, consecutive_404s,
                   total_records, total_requests,
                   data, stopped, last_fetch, streak_nonfound, streak_404, lookups,
                   at_stop, faults, calls, caller_rows, observed>>

Next ==
    \/ Fetch
    \/ FetchJsonRaises
    \/ Buffer
    \/ PeriodicSave
    \/ Advance
    \/ LoopExit
    \/ Interrupt
    \/ FinalSave

Spec == Init /\ [][Next]_vars

\* `if data:` is false: nothing is flattened and the iteration goes on
BufferSkipped == ~Truthy(data) /\ Buffer

\* the statements of run; a KeyboardInterrupt comes from outside
RunStep ==
    \/ Fetch
    \/ FetchJsonRaises
    \/ Buffer
    \/ PeriodicSave
    \/ Advance
    \/ LoopExit
    \/ FinalSave

\* a run that nobody interrupts. run is one sequential thread and each of its
\* statements returns: requests.get has timeout=30 and the optional delay
\* is at most MAX_DELAY, so the thread always takes its next step; the fairness asked for
\* is that of the steps an iteration without a record and the end of run are
\* made of
SpecLive ==
    /\ Init
    /\ [][RunStep]_vars
    /\ WF_vars(Fetch)
    /\ WF_vars(BufferSkipped)
    /\ WF_vars(Advance)
    /\ WF_vars(LoopExit)
    /\ WF_vars(FinalSave)

----------------------------------------------------------------------------------------------------------------------------------------------------
(* resume_scraper: find_last_bdns and the run it starts *)

\* all_bdns: the identifiers of all rows of all files
AllBdns(d) == UNION {{d[y][k].codigoBDNS : k \in DOMAIN d[y]} : y \in DOMAIN d}

Max(S) == CHOOSE m \in S : \A x \in S : x <= m

\* variant: one plus the highest identifier of the file of the latest year
find_last_bdns_LatestFile(d) ==
    IF DOMAIN d = {} THEN FALLBACK_START
    ELSE Max({d[Max(DOMAIN d)][k].codigoBDNS : k \in DOMAIN d[Max(DOMAIN d)]}) + 1

find_last_bdns(d) ==
    IF DOMAIN d = {} THEN FALLBACK_START ELSE Max(AllBdns(d)) + 1

\* the identifiers that were buffered when the run stopped and are in no file
LostIds ==
    UNION {{at_stop[i].df[k].codigoBDNS : k \in DOMAIN at_stop[i].df} :
              i \in DOMAIN at_stop} \ AllBdns(disk)

\* BDNSScraper(start_bdns=start), called while the program runs
Construct(start) ==
    /\ start_bdns' = start
    /\ current_bdns' = start
    /\ consecutive_404s' = 0
    /\ dataframes_by_year' = <<>>
    /\ total_records' = 0
    /\ total_requests' = 0
    /\ todo' = <<>>
    /\ stopped' = "Running"
    /\ last_fetch' = "none"
    /\ streak_nonfound' = 0
    /\ streak_404' = 0
    /\ lookups' = 0
    /\ at_stop' = <<>>
    /\ flush_log' = <<>>
    /\ faults' = NoFaults
    /\ calls' = 0
    /\ caller_rows' = <<>>
    /\ observed' = <<>>

\* resume_from = find_last_bdns(); scraper = BDNSScraper(start_bdns=resume_from)
Resume ==
    /\ pc = "main"
    /\ pc' = "loop"
    /\ Construct(find_last_bdns(disk))
    /\ UNCHANGED <<disk, data, earlier_runs, flushers, dashboard, utility>>

\* run has returned and the resume script is started on what it left
StartResumeScript ==
    /\ pc = "done"
    /\ Len(earlier_runs) < MaxResumes
    /\ earlier_runs' = Append(earlier_runs,
                              [start |-> start_bdns, stopped |-> stopped,
                               lost |-> LostIds])
    /\ pc' = "main"
    /\ UNCHANGED <<start_bdns, current_bdns, consecutive_404s, total_records,
                   total_requests, dataframes_by_year, disk, data, todo, stopped,
                   last_fetch, streak_nonfound, streak_404, lookups, at_stop,
                   flush_log, faults, calls, caller_rows, observed, flushers,
                   dashboard, utility>>

\* a run, and the resume script after it
NextResume == Next \/ StartResumeScript \/ Resume

SpecResume == Init /\ [][NextResume]_vars

\* the resume script and the run it starts
NextResumed == Next \/ Resume

\* files that hold identifiers 100, 105 and 200, the highest in either file
SampleDisk(last2024, last2025) ==
    (2024 :> (transform_data(ExampleRecord(100, "v1"))
              \o transform_data(PlainRecord(last2024, "v1"))))
        @@ (2025 :> transform_data(DatedRecord(last2025, "v1", Date20250110)))

\* what a run that ended right below START_BDNS left behind
PrecedingRunDisk == 2024 :> transform_data(ExampleRecord(START_BDNS - 1, "v1"))

\* data directories the resume script may find
ResumeDirs == {EmptyDisk, PrecedingRunDisk, SampleDisk(200, 105), SampleDisk(105, 200)}

\* the resume script started on a data directory
InitResumed ==
    /\ pc = "main"
    /\ disk \in ResumeDirs
    /\ data = <<>>
    /\ earlier_runs = <<>>
    /\ flushers = <<>>
    /\ dashboard = NoDashboard
    /\ utility = NoUtility
    /\ Constructed(START_BDNS)

SpecResumed == InitResumed /\ [][NextResumed]_vars

----------------------------------------------------------------------------
(* A caller of add_rows and save_to_parquet, as the workflow test is *)

StoreYears == {2024, 2025}

\* the records the caller flattens and buffers
StoreRecords ==
    {ExampleRecord(START_BDNS, "v1"), ExampleRecord(START_BDNS, "v2"),
     PlainRecord(START_BDNS, "v2"), PlainRecord(START_BDNS + 1, "v2")}

InitStore ==
    /\ pc = "caller"
    /\ disk \in DataDirs
    /\ data = <<>>
    /\ earlier_runs = <<>>
    /\ flushers = <<>>
    /\ dashboard = NoDashboard
    /\ utility = NoUtility
    /\ Constructed(START_BDNS)

\* rows = scraper.transform_data(data); scraper.add_rows(rows)
CallAddRows ==
    /\ pc = "caller"
    /\ calls < MaxCalls
    /\ \E d \in StoreRecords :
          LET rows == transform_data(d)
          IN  /\ data' = <<d>>
              /\ caller_rows' = rows
              /\ dataframes_by_year' = add_rows(dataframes_by_year, rows)
              /\ total_records' = total_records + AddedRecords(rows)
    /\ calls' = calls + 1
    /\ UNCHANGED <<start_bdns, earlier_runs, flushers, dashboard, utility, pc, current_bdns, consecutive_404s,
                   total_requests, disk, todo,
                   stopped, last_fetch, streak_nonfound, streak_404, lookups,
                   at_stop, flush_log, faults, observed>>

\* rows of several records in one list: two years, a row without a year, and
\* a second identifier of the first year
MixedRows ==
    transform_data(PlainRecord(START_BDNS + 1, "v2"))
        \o transform_data(DatedRecord(START_BDNS + 2, "v2", Date20250110))
        \o transform_data(UndatedRecord(START_BDNS + 3, "v2"))
        \o transform_data(PlainRecord(START_BDNS, "v1"))

\* the lists a caller of add_rows passes: the mixed one, an empty one and the
\* rows of one record
Batches == {MixedRows, <<>>, transform_data(ExampleRecord(START_BDNS, "v2"))}

\* scraper.add_rows(rows) with such a list
CallAddRowsMixed ==
    /\ pc = "caller"
    /\ calls < MaxCalls
    /\ data' = <<>>
    /\ \E rows \in Batches :
          /\ caller_rows' = rows
          /\ dataframes_by_year' = add_rows(dataframes_by_year, rows)
          /\ total_records' = total_records + AddedRecords(rows)
    /\ calls' = calls + 1
    /\ UNCHANGED <<start_bdns, earlier_runs, flushers, dashboard, utility, pc, current_bdns,
                   consecutive_404s, total_requests, disk, todo,
                   stopped, last_fetch, streak_nonfound, streak_404, lookups,
                   at_stop, flush_log, faults, observed>>

\* what a save that got past the early return was given and what it left
Observation(y, ok) ==
    [year |-> y, ok |-> ok, existed |-> y \in DOMAIN disk,
     before |-> FileOf(disk, y), rows |-> DfOf(dataframes_by_year, y),
     after |-> FileOf(disk', y)]

\* scraper.save_to_parquet(year)
CallSave ==
    /\ pc = "caller"
    /\ \E y \in StoreYears, ok \in BOOLEAN :
          /\ save_to_parquet("call", y, ok)
          /\ observed' = IF SaveProceeds(dataframes_by_year, y)
                         THEN Append(observed, Observation(y, ok))
                         ELSE observed
    /\ UNCHANGED <<start_bdns, earlier_runs, flushers, dashboard, utility, pc, current_bdns, consecutive_404s,
                   total_records, total_requests,
                   data, todo, stopped, last_fetch, streak_nonfound, streak_404,
                   lookups, at_stop, faults, calls, caller_rows>>

NextStore == CallAddRows \/ CallSave

SpecStore == InitStore /\ [][NextStore]_vars

\* a caller that buffers lists of rows of several records
NextBatches == CallAddRowsMixed \/ CallSave

SpecBatches == InitStore /\ [][NextBatches]_vars

----------------------------------------------------------------------------
(* Several processes that call save_to_parquet for the same year, each with
   its own scraper object and its own buffer; the reads and writes succeed *)

NumFlushers == 2

Flushers == 1..NumFlushers

FlushYear == 2024

\* what the buffer of year FlushYear of process p may hold before its save
FlusherRows(p) ==
    {<<>>,
     transform_data(PlainRecord(START_BDNS + p, "v2")),
     transform_data(ExampleRecord(START_BDNS, "v2"))
         \o transform_data(PlainRecord(START_BDNS + p, "v2"))}

\* df is self.dataframes_by_year[year]; rows is what it held when the save was
\* called; before is the set of processes whose save had returned by then
NewFlusher(rows) ==
    [pc |-> "idle", df |-> rows, rows |-> rows, exists |-> FALSE,
     existing_df |-> <<>>, before |-> {}]

InitFlushers ==
    /\ pc = "flushers"
    /\ disk \in DataDirs
    /\ data = <<>>
    /\ earlier_runs = <<>>
    /\ Constructed(START_BDNS)
    /\ flushers \in [Flushers -> UNION {{NewFlusher(r) : r \in FlusherRows(p)} : p \in Flushers}]
    /\ \A p \in Flushers : flushers[p].rows \in FlusherRows(p)
    /\ dashboard = NoDashboard
    /\ utility = NoUtility

OnlyFlushersChange ==
    UNCHANGED <<pc, start_bdns, earlier_runs, current_bdns, consecutive_404s,
                total_records, total_requests, dataframes_by_year, data, todo,
                stopped, last_fetch, streak_nonfound, streak_404, lookups, at_stop,
                flush_log, faults, calls, caller_rows, observed, dashboard, utility>>

Returned == {q \in Flushers : flushers[q].pc = "done"}

\* the early return on an empty buffer, then file_path.exists()
FlushBegin(p) ==
    /\ flushers[p].pc = "idle"
    /\ flushers' =
          [flushers EXCEPT
             ![p].before = Returned,
             ![p].exists = flushers[p].df # <<>> /\ FlushYear \in DOMAIN disk,
             ![p].pc = IF flushers[p].df = <<>> THEN "done"
                       ELSE IF FlushYear \in DOMAIN disk THEN "read"
                       ELSE "write"]
    /\ UNCHANGED disk
    /\ OnlyFlushersChange

\* existing_df = pd.read_parquet(file_path)
FlushRead(p) ==
    /\ flushers[p].pc = "read"
    /\ flushers' = [flushers EXCEPT ![p].existing_df = FileOf(disk, FlushYear),
                                    ![p].pc = "write"]
    /\ UNCHANGED disk
    /\ OnlyFlushersChange

\* what to_parquet is given: the merge of what was read, or the buffer
FlushedFile(f) ==
    IF f.exists THEN drop_duplicates(f.existing_df \o f.df) ELSE f.df

\* variant: the file is overwritten with the buffer alone
FlushWrite_BufferOnly(p) ==
    /\ flushers[p].pc = "write"
    /\ disk' = (FlushYear :> flushers[p].df) @@ disk
    /\ flushers' = [flushers EXCEPT ![p].df = <<>>, ![p].pc = "done"]
    /\ OnlyFlushersChange

\* to_parquet(file_path), then the buffer is cleared
FlushWrite(p) ==
    /\ flushers[p].pc = "write"
    /\ disk' = (FlushYear :> FlushedFile(flushers[p])) @@ disk
    /\ flushers' = [flushers EXCEPT ![p].df = <<>>, ![p].pc = "done"]
    /\ OnlyFlushersChange

NextFlushers == \E p \in Flushers : FlushBegin(p) \/ FlushRead(p) \/ FlushWrite(p)

SpecFlushers == InitFlushers /\ [][NextFlushers]_vars

----------------------------------------------------------------------------
(* streamlit_app.py: load_all_data, apply_filters and the part of main that
   calls them *)

\* a Timestamp is [year, month, day]; NaT
NaT == [year |-> 0, month |-> 0, day |-> 0]

\* pd.to_datetime(text, errors='coerce') for a text in the format of strptime
ParseDate(s) ==
    IF StrptimeYear(s) = NoneInt THEN NaT
    ELSE LET q == SecondDash(s)
         IN  [year |-> NumVal(SubSeq(s, 1, 4)),
              month |-> NumVal(SubSeq(s, 6, q - 1)),
              day |-> NumVal(SubSeq(s, q + 1, Len(s)))]

DateColumns == {"fechaRecepcion", "fechaInicioSolicitud", "fechaFinSolicitud"}

\* combined[col] = pd.to_datetime(combined[col], errors='coerce')
ConvertDates(rows) ==
    [i \in DOMAIN rows |->
        [c \in DOMAIN rows[i] |->
            IF c \notin DateColumns THEN rows[i][c]
            ELSE IF rows[i][c] = NoneOf(c) THEN NaT
            ELSE ParseDate(rows[i][c])]]

\* the orders in which DATA_DIR.glob may list the files
GlobOrders(d) ==
    {o \in [1..Cardinality(DOMAIN d) -> DOMAIN d] :
        \A i, j \in DOMAIN o : o[i] = o[j] => i = j}

\* pd.concat(dfs, ignore_index=True) of the files read in the order listed
ConcatFiles(d, order) ==
    IF Len(order) = 0 THEN <<>>
    ELSE IF Len(order) = 1 THEN d[order[1]]
    ELSE IF Len(order) = 2 THEN d[order[1]] \o d[order[2]]
    ELSE d[order[1]] \o d[order[2]] \o d[order[3]]

\* variant: the concatenation is returned with its duplicates
load_all_data_NoDedupe(d, order) ==
    IF DOMAIN d = {} THEN <<>>
    ELSE ConvertDates(ConcatFiles(d, order))

\* load_all_data() when glob lists the files of d in the given order
load_all_data(d, order) ==
    IF DOMAIN d = {} THEN <<>>
    ELSE ConvertDates(drop_duplicates(ConcatFiles(d, order)))

\* the filters in the order apply_filters tests them
FilterOrder ==
    <<"bdns_codes", "descripcion_search", "fecha_recepcion_start",
      "fecha_recepcion_end", "fecha_solicitud_start", "fecha_solicitud_end",
      "organo_nivel1", "organo_nivel2", "presupuesto_min", "presupuesto_max",
      "regiones", "sectores", "beneficiarios", "tipo_convocatoria", "abierto",
      "years">>

ListFilters ==
    {"organo_nivel1", "organo_nivel2", "regiones", "sectores", "beneficiarios",
     "tipo_convocatoria", "years"}

\* `if filters.get(k)`, and `is not None` for the budget and the status; a
\* filter that is None is not a key of the dict
Active(f, k) ==
    /\ k \in DOMAIN f
    /\ k \in ListFilters => f[k] # {}
    /\ k = "bdns_codes" => f[k] # <<>>
    /\ k = "descripcion_search" => f[k] # ""

\* text.split(',')
RECURSIVE Split(_)
Split(s) ==
    IF \A i \in DOMAIN s : s[i] # ","
    THEN <<s>>
    ELSE LET c == CHOOSE i \in DOMAIN s :
                       s[i] = "," /\ \A j \in 1..(i - 1) : s[j] # ","
         IN  <<SubSeq(s, 1, c - 1)>> \o Split(SubSeq(s, c + 1, Len(s)))

\* x.strip()
RECURSIVE Strip(_)
Strip(s) ==
    IF s = <<>> THEN s
    ELSE IF Head(s) = " " THEN Strip(Tail(s))
    ELSE IF s[Len(s)] = " " THEN Strip(SubSeq(s, 1, Len(s) - 1))
    ELSE s

DigitChar == <<"0", "1", "2", "3", "4", "5", "6", "7", "8", "9">>

\* str(n) of a non-negative integer
RECURSIVE Str(_)
Str(n) ==
    IF n < 10 THEN <<DigitChar[n + 1]>>
    ELSE Append(Str(n \div 10), DigitChar[(n % 10) + 1])

\* str.lower() of the search terms and descriptions that occur
Lower(t) == IF t = "V1" THEN "v1" ELSE IF t = "V2" THEN "v2" ELSE t

\* the non-empty substrings of the lower-case descriptions that occur
Substrings(t) ==
    IF t = "v1" THEN {"v", "1", "v1"}
    ELSE IF t = "v2" THEN {"v", "2", "v2"}
    ELSE {t}

\* the number a budget column holds
BudgetValue(x) == IF x = "230000" THEN 230000 ELSE 0

DateNum(t) == t.year * 10000 + t.month * 100 + t.day

\* the boolean mask of one filter for one row; comparisons with NaT, NaN and
\* None are False
Passes(row, f, k) ==
    IF k = "bdns_codes"
    THEN \E i \in DOMAIN Split(f[k]) : Strip(Split(f[k])[i]) = Str(row.codigoBDNS)
    ELSE IF k = "descripcion_search"
    THEN row.descripcion # NoneStr /\ Lower(f[k]) \in Substrings(Lower(row.descripcion))
    ELSE IF k = "fecha_recepcion_start"
    THEN row.fechaRecepcion # NaT /\ DateNum(row.fechaRecepcion) >= DateNum(f[k])
    ELSE IF k = "fecha_recepcion_end"
    THEN row.fechaRecepcion # NaT /\ DateNum(row.fechaRecepcion) <= DateNum(f[k])
    ELSE IF k = "fecha_solicitud_start"
    THEN row.fechaInicioSolicitud # NaT
         /\ DateNum(row.fechaInicioSolicitud) >= DateNum(f[k])
    ELSE IF k = "fecha_solicitud_end"
    THEN row.fechaFinSolicitud # NaT
         /\ DateNum(row.fechaFinSolicitud) <= DateNum(f[k])
    ELSE IF k = "organo_nivel1" THEN row.organo_nivel1 \in f[k]
    ELSE IF k = "organo_nivel2" THEN row.organo_nivel2 \in f[k]
    ELSE IF k = "presupuesto_min"
    THEN row.presupuestoTotal # NoneStr /\ BudgetValue(row.presupuestoTotal) >= f[k]
    ELSE IF k = "presupuesto_max"
    THEN row.presupuestoTotal # NoneStr /\ BudgetValue(row.presupuestoTotal) <= f[k]
    ELSE IF k = "regiones" THEN row.region_descripcion \in f[k]
    ELSE IF k = "sectores" THEN row.sector_descripcion \in f[k]
    ELSE IF k = "beneficiarios" THEN row.tipoBeneficiario_descripcion \in f[k]
    ELSE IF k = "tipo_convocatoria" THEN row.tipoConvocatoria \in f[k]
    ELSE IF k = "abierto" THEN row.abierto = f[k]
    ELSE row.year \in f[k]

\* filtered_df after the tests of the filters keys[1], keys[2], ...
RECURSIVE ApplyFrom(_, _, _)
ApplyFrom(cur, f, keys) ==
    IF keys = <<>> THEN cur
    ELSE ApplyFrom(IF Active(f, Head(keys))
                   THEN SelectSeq(cur, LAMBDA row : Passes(row, f, Head(keys)))
                   ELSE cur,
                   f, Tail(keys))

\* apply_filters(df, filters): df.copy(), then one boolean mask per filter
apply_filters(rows, f) == ApplyFrom(rows, f, FilterOrder)

KeysBefore(k) ==
    SubSeq(FilterOrder, 1, (CHOOSE i \in DOMAIN FilterOrder : FilterOrder[i] = k) - 1)

\* a budget column in which every value is None is read back with dtype
\* object, and `>=` between None and a number raises TypeError where pandas
\* compares element by element
BudgetMayRaise(rows, f) ==
    /\ \A i \in DOMAIN rows : rows[i].presupuestoTotal = NoneStr
    /\ \E k \in {"presupuesto_min", "presupuesto_max"} :
          Active(f, k) /\ ApplyFrom(rows, f, KeysBefore(k)) # <<>>

\* single filters a user may set in the sidebar
FilterAtoms ==
    {EmptyDict,
     [years |-> {2024}], [years |-> {2025}], [years |-> {}],
     [bdns_codes |-> <<"1", "0", "0", ",", " ", "7", "4", "7", "5", "7", "3">>],
     [bdns_codes |-> <<" ", "2", "0", "0", " ">>],
     [bdns_codes |-> <<>>],
     [descripcion_search |-> "V1"], [descripcion_search |-> "2"],
     [descripcion_search |-> ""],
     [fecha_recepcion_start |-> [year |-> 2025, month |-> 1, day |-> 1]],
     [fecha_recepcion_end |-> [year |-> 2024, month |-> 12, day |-> 31]],
     [fecha_solicitud_start |-> [year |-> 2024, month |-> 1, day |-> 1]],
     [fecha_solicitud_end |-> [year |-> 2026, month |-> 1, day |-> 1]],
     [organo_nivel1 |-> {"ESTADO"}], [organo_nivel2 |-> {"MINISTERIO"}],
     [presupuesto_min |-> 0], [presupuesto_min |-> 300000],
     [presupuesto_max |-> 230000],
     [regiones |-> {"Madrid"}], [sectores |-> {"s1"}],
     [beneficiarios |-> {"PYME"}], [tipo_convocatoria |-> {"Concesion"}],
     [abierto |-> "true"], [abierto |-> "false"]}

\* the dicts main builds: up to two filters set
FilterChoices == {a @@ b : a, b \in FilterAtoms}

\* the same identifier in the files of two years
CrossYearDisk ==
    (2024 :> transform_data(PlainRecord(START_BDNS, "v1")))
        @@ (2025 :> transform_data(DatedRecord(START_BDNS, "v2", Date20250110)))

\* data directories the dashboard may find
DashboardDirs ==
    {EmptyDisk, EarlierRunDisk, PrecedingRunDisk, SampleDisk(200, 105),
     CrossYearDisk, 2024 :> transform_data(PlainRecord(START_BDNS, "v1"))}

InitDashboard ==
    /\ pc = "dashboard"
    /\ disk \in DashboardDirs
    /\ data = <<>>
    /\ earlier_runs = <<>>
    /\ flushers = <<>>
    /\ Constructed(START_BDNS)
    /\ dashboard = [NoDashboard EXCEPT !.pc = "main"]
    /\ utility = NoUtility

OnlyDashboardChanges ==
    UNCHANGED <<pc, start_bdns, earlier_runs, current_bdns, consecutive_404s,
                total_records, total_requests, dataframes_by_year, disk, data,
                todo, stopped, last_fetch, streak_nonfound, streak_404, lookups,
                at_stop, flush_log, faults, calls, caller_rows, observed, flushers, utility>>

\* df = load_all_data(); if df.empty: st.stop()
LoadAllData ==
    /\ dashboard.pc = "main"
    /\ \E order \in GlobOrders(disk) :
          LET loaded == load_all_data(disk, order)
          IN  dashboard' = [dashboard EXCEPT
                              !.df = loaded,
                              !.filtered_df = <<>>,
                              !.pc = IF loaded = <<>> THEN "stopped" ELSE "loaded"]
    /\ OnlyDashboardChanges

\* filtered_df = apply_filters(df, filters), after the button was pressed
ApplyFilters ==
    /\ dashboard.pc = "loaded"
    /\ \E f \in FilterChoices :
       \E raises \in (IF BudgetMayRaise(dashboard.df, f) THEN BOOLEAN ELSE {FALSE}) :
          dashboard' = [dashboard EXCEPT
                          !.filters = f,
                          !.filtered_df = IF raises THEN dashboard.filtered_df
                                          ELSE apply_filters(dashboard.df, f),
                          !.pc = IF raises THEN "raised" ELSE "filtered"]
    /\ OnlyDashboardChanges

NextDashboard == LoadAllData \/ ApplyFilters

SpecDashboard == InitDashboard /\ [][NextDashboard]_vars

----------------------------------------------------------------------------
(* The data directories the utility scripts clean_data.py and
   check_progress.py may find: files as the scraper leaves them *)

UtilityYears == {2024, 2025}

UtilityIds(y) ==
    IF y = 2024 THEN {START_BDNS, START_BDNS + 2}
    ELSE {START_BDNS + 3, START_BDNS + 6}

DateOfYear(y) == IF y = 2024 THEN Date20240315 ELSE Date20250110

\* per identifier a record of two rows and a record of one row
UtilityRecords(y) ==
    {[ExampleRecord(id, "v1") EXCEPT !.fechaRecepcion = DateOfYear(y)] :
        id \in UtilityIds(y)}
    \cup {DatedRecord(id, "v1", DateOfYear(y)) : id \in UtilityIds(y)}

\* a file holds each identifier from one record; a file that no save has
\* merged into holds the records in the order of the cursor, a file that was
\* merged into holds one row per identifier in any order
FileRecordSeqs(y) ==
    {s \in UNION {[1..n -> UtilityRecords(y)] : n \in 1..MaxFileRecords} :
        /\ \A i, j \in DOMAIN s : i # j => s[i].codigoBDNS # s[j].codigoBDNS
        /\ \/ \A i, j \in DOMAIN s : i < j => s[i].codigoBDNS < s[j].codigoBDNS
           \/ \A i \in DOMAIN s : Len(transform_data(s[i])) = 1}

RECURSIVE RowsOfRecords(_)
RowsOfRecords(s) ==
    IF s = <<>> THEN <<>> ELSE transform_data(Head(s)) \o RowsOfRecords(Tail(s))

UtilityFiles(y) == {RowsOfRecords(s) : s \in FileRecordSeqs(y)}

UtilityDirs ==
    UNION {{d \in [Y -> UNION {UtilityFiles(y) : y \in UtilityYears}] :
               \A y \in Y : d[y] \in UtilityFiles(y)} :
           Y \in SUBSET UtilityYears}

\* one file of SHOWN_GAPS + 2 identifiers, every second number missing: one
\* gap more than check_progress lists
ManyGapsDisk ==
    2024 :> [k \in 1..(SHOWN_GAPS + 2) |->
                transform_data(PlainRecord(START_BDNS + 2 * (k - 1), "v1"))[1]]

\* sorted(parquet_files): bdns_<year>.parquet in the order of the years
SortedYears(d) ==
    CHOOSE s \in [1..Cardinality(DOMAIN d) -> DOMAIN d] :
        \A i, j \in DOMAIN s : i < j => s[i] < s[j]

OnlyUtilityChanges ==
    UNCHANGED <<pc, start_bdns, earlier_runs, current_bdns, consecutive_404s,
                total_records, total_requests, dataframes_by_year, data,
                todo, stopped, last_fetch, streak_nonfound, streak_404, lookups,
                at_stop, flush_log, faults, calls, caller_rows, observed, flushers,
                dashboard>>

InitUtility ==
    /\ pc = "utility"
    /\ data = <<>>
    /\ earlier_runs = <<>>
    /\ flushers = <<>>
    /\ dashboard = NoDashboard
    /\ utility = [NoUtility EXCEPT !.pc = "main"]
    /\ Constructed(START_BDNS)

----------------------------------------------------------------------------
(* clean_data.clean_all_files *)

InitClean ==
    /\ disk \in UtilityDirs
    /\ InitUtility

\* variant: every file is written back
CleanRewrites_Always(removed) == removed >= 0

\* `if removed > 0:` before df_clean.to_parquet(file)
CleanRewrites(removed) == removed > 0

\* parquet_files = list(DATA_DIR.glob(...)); if not parquet_files: return
CleanStart ==
    /\ utility.pc = "main"
    /\ utility.runs < MaxCleanRuns
    /\ utility' = [utility EXCEPT
                      !.pc = IF DOMAIN disk = {} THEN "returned" ELSE "cleaning",
                      !.files = SortedYears(disk),
                      !.total_removed = 0,
                      !.runs = utility.runs + 1,
                      !.starts = Append(utility.starts, disk)]
    /\ disk' = disk
    /\ OnlyUtilityChanges

\* one round of `for file in sorted(parquet_files)`
CleanFile ==
    /\ utility.pc = "cleaning"
    /\ utility.files # <<>>
    /\ LET y == Head(utility.files)
           df == disk[y]
           df_clean == drop_duplicates(df)
           removed == Len(df) - Len(df_clean)
       IN  /\ disk' = IF CleanRewrites(removed) THEN [disk EXCEPT ![y] = df_clean]
                       ELSE disk
           /\ utility' = [utility EXCEPT
                             !.files = Tail(utility.files),
                             !.total_removed = utility.total_removed + removed,
                             !.written = IF CleanRewrites(removed)
                                         THEN Append(utility.written,
                                                     [run |-> utility.runs, year |-> y])
                                         ELSE utility.written]
    /\ OnlyUtilityChanges

\* the summary after the loop; the script ends and may be run again
CleanEnd ==
    /\ utility.pc = "cleaning"
    /\ utility.files = <<>>
    /\ utility' = [utility EXCEPT !.pc = "returned",
                                  !.ends = Append(utility.ends, disk)]
    /\ disk' = disk
    /\ OnlyUtilityChanges

\* python clean_data.py once more
CleanAgain ==
    /\ utility.pc = "returned"
    /\ utility.runs < MaxCleanRuns
    /\ utility' = [utility EXCEPT !.pc = "main"]
    /\ disk' = disk
    /\ OnlyUtilityChanges

NextClean == CleanStart \/ CleanFile \/ CleanEnd \/ CleanAgain

SpecClean == InitClean /\ [][NextClean]_vars

----------------------------------------------------------------------------
(* check_progress.check_progress *)

\* df['codigoBDNS'].unique(): the identifiers in the order they first appear
UniqueBdns(df) ==
    LET first == SelectSeq(Indexed(df),
                     LAMBDA e : \A j \in 1..(e.i - 1) :
                                    df[j].codigoBDNS # e.x.codigoBDNS)
    IN  [k \in DOMAIN first |-> first[k].x.codigoBDNS]

\* all_bdns after the loop over sorted(parquet_files)
RECURSIVE ExtendAll(_, _)
ExtendAll(d, years) ==
    IF years = <<>> THEN <<>>
    ELSE UniqueBdns(d[Head(years)]) \o ExtendAll(d, Tail(years))

\* variant: a gap is closed on the identifier that ends it
GapEnd_Inclusive(i) == i

\* gap_end = i - 1
GapEnd(i) == i - 1

\* for i in range(min_bdns, max_bdns + 1), from i on, followed by
\* `if in_gap: gap_ranges.append((gap_start, max_bdns))`
RECURSIVE GapScan(_, _, _, _, _, _)
GapScan(i, max_bdns, bdns_set, in_gap, gap_start, gap_ranges) ==
    IF i > max_bdns
    THEN IF in_gap THEN Append(gap_ranges, <<gap_start, max_bdns>>) ELSE gap_ranges
    ELSE IF i \notin bdns_set
         THEN GapScan(i + 1, max_bdns, bdns_set, TRUE,
                      IF in_gap THEN gap_start ELSE i, gap_ranges)
         ELSE GapScan(i + 1, max_bdns, bdns_set, FALSE, gap_start,
                      IF in_gap THEN Append(gap_ranges, <<gap_start, GapEnd(i)>>)
                      ELSE gap_ranges)

RECURSIVE SumSizes(_)
SumSizes(ranges) ==
    IF ranges = <<>> THEN 0
    ELSE (Head(ranges)[2] - Head(ranges)[1] + 1) + SumSizes(Tail(ranges))

\* what check_progress prints and returns; with no file it prints that no
\* file was found and returns None
NoReport ==
    [found |-> FALSE, returned |-> NoneInt, lowest |-> NoneInt, highest |-> NoneInt,
     resume |-> NoneInt, unique |-> 0, shown |-> <<>>, more |-> 0,
     gaps |-> 0, total_missing |-> 0]

check_progress(d) ==
    IF DOMAIN d = {} THEN NoReport
    ELSE LET all_bdns == ExtendAll(d, SortedYears(d))
             all_bdns_int == SortSeq(all_bdns, LAMBDA a, b : a < b)
             min_bdns == all_bdns_int[1]
             max_bdns == all_bdns_int[Len(all_bdns_int)]
             gap_ranges == GapScan(min_bdns, max_bdns, Range(all_bdns_int),
                                   FALSE, NoneInt, <<>>)
         IN  [found |-> TRUE,
              returned |-> max_bdns,
              lowest |-> min_bdns,
              highest |-> max_bdns,
              resume |-> max_bdns + 1,
              unique |-> Cardinality(Range(all_bdns)),
              shown |-> SubSeq(gap_ranges, 1,
                               IF Len(gap_ranges) > SHOWN_GAPS THEN SHOWN_GAPS
                               ELSE Len(gap_ranges)),
              more |-> IF Len(gap_ranges) > SHOWN_GAPS
                       THEN Len(gap_ranges) - SHOWN_GAPS ELSE 0,
              gaps |-> Len(gap_ranges),
              total_missing |-> SumSizes(gap_ranges)]

InitProgress ==
    /\ disk \in UtilityDirs \cup {ManyGapsDisk}
    /\ InitUtility

\* python check_progress.py
CheckProgress ==
    /\ utility.pc = "main"
    /\ utility' = [utility EXCEPT !.pc = "returned",
                                  !.report = check_progress(disk)]
    /\ disk' = disk
    /\ OnlyUtilityChanges

NextProgress == CheckProgress

SpecProgress == InitProgress /\ [][NextProgress]_vars

----------------------------------------------------------------------------
(* A caller of transform_data *)

DimensionKeys == {"instrumentos", "tiposBeneficiarios", "sectores", "regiones"}

\* a multi-valued field that the record does not carry
AbsentDim == -1

DimNames == <<"Subvencion", "Prestamo", "Garantia", "Aval">>
DimCodes == <<"A", "B", "C", "D">>

\* a multi-valued field of n distinct elements
FlatDimension(k, n) ==
    [i \in 1..n |->
        IF k = "sectores"
        THEN [descripcion |-> DimNames[i], codigo |-> DimCodes[i]]
        ELSE [descripcion |-> DimNames[i]]]

FlatDates == {NoneDate, <<>>, Date20240315, Date20250110, DateSlashes}

\* a multi-valued field, a date or an object that is null
NullDim == -2
NullDate == <<"null">>

\* shape[k] is the length of field k, AbsentDim or NullDim; a date of NoneDate
\* is a record without fechaRecepcion; organo is "object", "absent" or "null"
FlatRecord(shape, date, organo) ==
    [k \in {x \in DimensionKeys : shape[x] >= 0} |-> FlatDimension(k, shape[k])]
        @@ (IF date \in {NoneDate, NullDate} THEN EmptyDict ELSE "fechaRecepcion" :> date)
        @@ (IF organo = "object"
            THEN "organo" :> [nivel1 |-> "ESTADO", nivel2 |-> "MINISTERIO"]
            ELSE EmptyDict)
        @@ (NULLS :> ({x \in DimensionKeys : shape[x] = NullDim}
                      \cup (IF date = NullDate THEN {"fechaRecepcion"} ELSE {})
                      \cup (IF organo = "null" THEN {"organo"} ELSE {})))
        @@ [id |-> START_BDNS, codigoBDNS |-> START_BDNS,
            descripcion |-> "Ayudas", presupuestoTotal |-> "230000"]

FlatInputs ==
    {FlatRecord(shape, date, organo) :
        shape \in [DimensionKeys -> NullDim..MaxDimLen],
        date \in FlatDates \cup {NullDate},
        organo \in {"object", "absent", "null"}}

InitFlatten ==
    /\ pc = "caller"
    /\ disk = EmptyDisk
    /\ data \in {<<d>> : d \in FlatInputs}
    /\ earlier_runs = <<>>
    /\ flushers = <<>>
    /\ dashboard = NoDashboard
    /\ utility = NoUtility
    /\ Constructed(START_BDNS)

\* rows = scraper.transform_data(data)
CallTransform ==
    /\ pc = "caller"
    /\ IF TransformRaises(data[1])
       THEN pc' = "raised" /\ caller_rows' = caller_rows
       ELSE pc' = "returned" /\ caller_rows' = transform_data(data[1])
    /\ calls' = calls + 1
    /\ UNCHANGED <<start_bdns, earlier_runs, flushers, dashboard, utility, current_bdns, consecutive_404s,
                   total_records, total_requests,
                   dataframes_by_year, disk, data, todo, stopped, last_fetch,
                   streak_nonfound, streak_404, lookups, at_stop, flush_log,
                   faults, observed>>

NextFlatten == CallTransform

SpecFlatten == InitFlatten /\ [][NextFlatten]_vars

----
(* Properties of the enumeration loop *)

Stopped == pc \in {"finally", "done"}

LogIndex == DOMAIN flush_log

C24_Original ==
    /\ [][(lookups' # lookups /\ consecutive_404s' < consecutive_404s) => last_fetch' = "Found"]_vars
    /\ [][(lookups' # lookups /\ last_fetch' = "BadBody") => consecutive_404s' = consecutive_404s]_vars
    /\ [](faults.transient = 0 => consecutive_404s = streak_nonfound)

\* C24 amended: the counter is set back to 0 by every HTTP 200 response, with
\* or without a usable record in its body, and by nothing else; a 200
\* response without a usable record buffers no row; in every state the
\* counter is the number of HTTP 404 outcomes since the latest HTTP 200
\* response
C24_ResetOnEvery200 ==
    /\ [][(lookups' # lookups /\ last_fetch' \in {"Found", "BadBody"}) => consecutive_404s' = 0]_vars
    /\ [][consecutive_404s' < consecutive_404s =>
             /\ lookups' # lookups
             /\ last_fetch' \in {"Found", "BadBody"}
             /\ consecutive_404s' = 0]_vars
    /\ [][(pc = "fetched" /\ last_fetch = "BadBody" /\ pc' # "finally") =>
             /\ pc' = "advance"
             /\ dataframes_by_year' = dataframes_by_year
             /\ total_records' = total_records]_vars
    /\ [](consecutive_404s = streak_404)

\* C24 witness: a 200 response without a usable record came after a 404: the
\* counter is back at 0 with two non-Found outcomes in a row and nothing
\* buffered
C24_Witness ==
    /\ pc = "fetched"
    /\ last_fetch = "BadBody"
    /\ streak_nonfound = 2
    /\ consecutive_404s = 0
    /\ total_records = 0
    /\ dataframes_by_year = <<>>

----------------------------------------------------------------------------
(* Properties of the final drain *)

FinalEntries(y) == {i \in LogIndex : flush_log[i].phase = "final" /\ flush_log[i].year = y}

\* df[k] is the last row of df that carries its identifier
IsLastOfId(df, k) ==
    \A j \in (k + 1)..Len(df) : df[j].codigoBDNS # df[k].codigoBDNS

\* C3 as stated: after the run has stopped, every row that was still buffered
\* when it stopped is in the persisted dataset of its year
C3_Original ==
    pc = "done" =>
        \A i \in DOMAIN at_stop :
            \A k \in DOMAIN at_stop[i].df :
                /\ at_stop[i].year \in DOMAIN disk
                /\ at_stop[i].df[k] \in Range(disk[at_stop[i].year])

\* C3 amended: after the run has stopped, every partition that was non-empty
\* when it stopped has been handed to a final save; if that save did not fail,
\* the buffer is empty and the file of the year holds, for every identifier of
\* the buffer, the last row buffered for it (every row of the buffer when the
\* save created the file)
C3_FinalFlush ==
    pc = "done" =>
        \A i \in DOMAIN at_stop :
            LET y == at_stop[i].year
                df == at_stop[i].df
            IN  df # <<>> =>
                  /\ FinalEntries(y) # {}
                  /\ \A e \in FinalEntries(y) :
                        flush_log[e].ok =>
                          /\ y \in DOMAIN disk
                          /\ DfOf(dataframes_by_year, y) = <<>>
                          /\ LET file == Range(disk[y]) IN
                                \A k \in DOMAIN df :
                                    (IsLastOfId(df, k) \/ ~flush_log[e].existed)
                                        => df[k] \in file

\* C3 witness: a run that buffered fewer than 100 rows in all stopped and its
\* final save merged a record of two rows into an existing file
C3_Witness ==
    /\ pc = "done"
    /\ total_records > 0
    /\ total_records < SAVE_EVERY
    /\ \E i \in LogIndex :
          /\ flush_log[i].phase = "final"
          /\ flush_log[i].ok
          /\ flush_log[i].existed
          /\ Len(DfOf(at_stop, flush_log[i].year)) >= 2

YearsAtStop ==
    {at_stop[i].year : i \in DOMAIN at_stop} \cup {flush_log[i].year : i \in LogIndex}

\* C4: once the loop is left, for either reason and wherever the interrupt
\* arrived, every partition that is non-empty then is saved exactly once, no
\* empty partition is saved, whatever total_records is, and no lookup follows
C4_FinalDrainOnce ==
    /\ [](pc = "done" =>
            \A y \in YearsAtStop :
                Cardinality(FinalEntries(y)) = IF NonEmpty(at_stop, y) THEN 1 ELSE 0)
    /\ [][Stopped => (Stopped' /\ lookups' = lookups)]_vars

\* C4 witness: an interrupt in the middle of an iteration, right after
\* total_records reached a multiple of 100 and before the periodic saves ran:
\* the final drain saved both partitions
C4_Witness ==
    /\ pc = "done"
    /\ stopped = "UserCancelled"
    /\ Truthy(data)
    /\ PeriodicSaveDue(total_records)
    /\ \A i \in LogIndex : flush_log[i].phase = "final"
    /\ \E i, j \in LogIndex : flush_log[i].year # flush_log[j].year

\* every partition that was non-empty when the loop was left has had its one
\* final save; where that save did not raise, the buffer is empty and the
\* file holds every identifier that was buffered
Drained ==
    \A i \in DOMAIN at_stop :
        LET y == at_stop[i].year
            df == at_stop[i].df
        IN  df # <<>> =>
              /\ Cardinality(FinalEntries(y)) = 1
              /\ \A e \in FinalEntries(y) :
                    flush_log[e].ok =>
                      /\ DfOf(dataframes_by_year, y) = <<>>
                      /\ y \in DOMAIN disk
                      /\ \A k \in DOMAIN df :
                            \E c \in DOMAIN disk[y] :
                                disk[y][c].codigoBDNS = df[k].codigoBDNS

\* C28: an exception other than KeyboardInterrupt that leaves the loop, from
\* transform_data or from the parsing of a response, takes run to the finally
\* block with the buffers as they are; the finally block then saves every
\* partition that is non-empty, and only after that does run end with the
\* exception
C28_DrainOnException ==
    /\ [][(stopped = "Running" /\ stopped' = "Crashed") =>
             /\ pc' = "finally"
             /\ dataframes_by_year' = dataframes_by_year
             /\ at_stop' = dataframes_by_year
             /\ todo' = Keys(dataframes_by_year)
             /\ disk' = disk]_vars
    /\ [](stopped = "Crashed" => pc \in {"finally", "done"})
    /\ []((pc = "done" /\ stopped = "Crashed") => Drained)
    /\ (stopped = "Crashed") ~> (pc = "done" /\ stopped = "Crashed" /\ Drained)

\* C28 witness: transform_data raised on a record with a null organo while
\* rows of an earlier record were buffered; run ended with the exception and
\* the buffered rows are in the file
C28_Witness ==
    /\ pc = "done"
    /\ stopped = "Crashed"
    /\ Truthy(data)
    /\ TransformRaises(data[1])
    /\ \E i \in DOMAIN at_stop : at_stop[i].df # <<>>
    /\ \E e \in LogIndex : flush_log[e].phase = "final" /\ flush_log[e].ok
    /\ Drained

\* the identifiers from which on a run of MAX_CONSECUTIVE_404 lookups fits
\* below MaxProbes
TailStarts == START_BDNS .. START_BDNS + (MaxProbes - MAX_CONSECUTIVE_404)

\* every lookup of x and of the identifiers after it ended in a 404
Only404From(x) == lookups > x - start_bdns => last_fetch = "NotFound"

\* C25: when every lookup from the identifier x on returns 404 and no
\* interrupt arrives, a run that gets to x leaves the loop on the threshold
\* after at most MAX_CONSECUTIVE_404 lookups from x on, makes the final saves
\* of every partition that is non-empty then, and ends
C25_TerminatesAfter404s ==
    \A x \in TailStarts :
        ([]Only404From(x) /\ [](stopped # "UserCancelled"))
            => ((pc = "loop" /\ stopped = "Running" /\ current_bdns = x)
                  ~> (/\ pc = "done"
                      /\ stopped = "MaxConsecutiveFailures"
                      /\ lookups <= (x - start_bdns) + MAX_CONSECUTIVE_404
                      /\ todo = <<>>
                      /\ \A y \in YearsAtStop :
                            NonEmpty(at_stop, y) => FinalEntries(y) # {}))

\* C25 witness: two records were buffered, ten 404s followed, and the run
\* ended on the threshold with its final saves made
C25_Witness ==
    /\ pc = "done"
    /\ stopped = "MaxConsecutiveFailures"
    /\ lookups = MaxKnown + MAX_CONSECUTIVE_404
    /\ total_records > 0
    /\ \E i \in LogIndex : flush_log[i].phase = "final" /\ flush_log[i].ok

----------------------------------------------------------------------------
(* Properties of the periodic save *)

\* total_records before the add_rows call of the current iteration
TotalBeforeAdd == total_records - AddedRecords(transform_data(data[1]))

\* the add_rows call of the current iteration took total_records across a
\* multiple of SAVE_EVERY
CrossedMultiple ==
    (TotalBeforeAdd \div SAVE_EVERY) < (total_records \div SAVE_EVERY)

SavedInThisIteration(y) ==
    \E i \in LogIndex :
        /\ flush_log[i].phase = "periodic"
        /\ flush_log[i].bdns = current_bdns
        /\ flush_log[i].year = y

\* C9: when the add_rows call of an iteration takes the cumulative row count
\* across a multiple of 100, every non-empty partition is saved before the
\* iteration ends
C9_Original ==
    (pc = "advance" /\ Truthy(data) /\ CrossedMultiple) =>
        \A i \in DOMAIN dataframes_by_year :
            \/ dataframes_by_year[i].df = <<>>
            \/ SavedInThisIteration(dataframes_by_year[i].year)

\* the saves made by the step that is being taken
NewEntries == (Len(flush_log) + 1)..Len(flush_log')

----------------------------------------------------------------------------
(* Properties of a save that raises *)

\* the years a save of the step being taken wrote
YearsWritten == {flush_log'[e].year : e \in {n \in NewEntries : flush_log'[n].ok}}

FailedNow == \E e \in NewEntries : ~flush_log'[e].ok

\* C11: a save that raises changes no file, and a step changes only the files
\* of the years it saved without raising; after a save of the periodic pass
\* raised the run is still in the pass and has not stopped, and the pass ends
\* in the advance to the next identifier; at the end of a periodic pass and of
\* the final pass every partition that was non-empty has been handed to a save,
\* whether or not another save of the pass raised
C11_FailureContained ==
    /\ [][\A y \in DOMAIN disk \cup DOMAIN disk' :
            y \notin YearsWritten =>
                (y \in DOMAIN disk /\ y \in DOMAIN disk' /\ disk'[y] = disk[y])]_vars
    /\ [][(FailedNow /\ pc = "saving") => (pc' = "saving" /\ stopped' = "Running")]_vars
    /\ [][(FailedNow /\ pc = "finally") => pc' = "done"]_vars
    /\ [][(pc = "saving" /\ pc' # "saving") => pc' \in {"advance", "finally"}]_vars
    /\ [][(pc = "advance" /\ pc' # "finally") =>
             (pc' = "loop" /\ current_bdns' = current_bdns + 1)]_vars
    /\ [](pc = "advance" /\ Truthy(data) /\ PeriodicSaveDue(total_records) =>
            \A i \in DOMAIN dataframes_by_year :
                \/ dataframes_by_year[i].df = <<>>
                \/ SavedInThisIteration(dataframes_by_year[i].year))
    /\ [](pc = "done" =>
            \A i \in DOMAIN at_stop :
                at_stop[i].df # <<>> => FinalEntries(at_stop[i].year) # {})

\* C11 witness: in one periodic pass the save of 2024 raised and the save of
\* 2025 wrote its file, and the run went on to the next identifier
C11_Witness ==
    /\ pc = "loop"
    /\ stopped = "Running"
    /\ 2025 \in DOMAIN disk
    /\ DfOf(dataframes_by_year, 2024) # <<>>
    /\ DfOf(dataframes_by_year, 2025) = <<>>
    /\ \E i, j \in LogIndex :
          /\ i < j
          /\ flush_log[i].phase = "periodic" /\ flush_log[j].phase = "periodic"
          /\ flush_log[i].bdns = flush_log[j].bdns
          /\ flush_log[i].bdns = current_bdns - 1
          /\ flush_log[i].year = 2024 /\ ~flush_log[i].ok
          /\ flush_log[j].year = 2025 /\ flush_log[j].ok

----------------------------------------------------------------------------
(* Properties of fetch_convocatoria *)

\* a call of fetch_convocatoria is made by the step being taken
FetchStep == lookups' # lookups

\* C16: a call makes one lookup and at most one request is counted for it; a
\* 404, another status and a network failure return None and the call
\* returns to run; a 200 with a non-empty record returns that record, the one
\* of the identifier asked for; what is returned otherwise is the parsed body
\* of a 200 response
C16_FetchOnce ==
    [][FetchStep =>
          /\ lookups' = lookups + 1
          /\ total_requests' \in {total_requests, total_requests + 1}
          /\ last_fetch' \in {"NotFound", "TransientError"} =>
                /\ pc' = "fetched"
                /\ stopped' = "Running"
                /\ data' = <<>>
          /\ last_fetch' = "Found" =>
                /\ pc' = "fetched"
                /\ Truthy(data')
                /\ data'[1].codigoBDNS = current_bdns
          /\ (pc' = "fetched" /\ data' # <<>>) => last_fetch' \in {"Found", "BadBody"}
          /\ (pc' = "fetched" /\ last_fetch' = "BadBody") => ~Truthy(data')]_vars

\* C16 witness: a network failure after a record had been returned: no
\* request was counted for it, None was returned and run goes on
C16_Witness ==
    /\ pc = "fetched"
    /\ stopped = "Running"
    /\ last_fetch = "TransientError"
    /\ data = <<>>
    /\ total_requests = lookups - 1
    /\ total_records > 0

\* C30 as stated: every call of fetch_convocatoria adds one to
\* total_requests, whatever its outcome, a failure of the network included,
\* so that the counter is the number of lookups made
C30_Original ==
    /\ [][FetchStep => total_requests' = total_requests + 1]_vars
    /\ [](total_requests = lookups)

\* C17: the cursor changes only at the end of an iteration and then by
\* exactly one, whatever the fetch returned; the k-th lookup of a run is for
\* start_bdns + k - 1, so the identifiers are probed in increasing order and
\* none twice; between iterations the cursor is start_bdns plus the number of
\* iterations made
C17_CursorAdvance ==
    /\ [][current_bdns' # current_bdns =>
             (pc = "advance" /\ pc' = "loop" /\ current_bdns' = current_bdns + 1)]_vars
    /\ [][(pc = "advance" /\ pc' = "loop") =>
             (current_bdns' = current_bdns + 1 /\ lookups' = lookups)]_vars
    /\ [][FetchStep =>
             (current_bdns = start_bdns + lookups /\ current_bdns' = current_bdns)]_vars
    /\ [](pc = "loop" => current_bdns = start_bdns + lookups)
    /\ [](pc \in {"fetched", "saving", "advance"} =>
             current_bdns = start_bdns + lookups - 1)

\* C17 witness: four iterations were made, with a record, a transient error
\* and a 404 among their outcomes, and the cursor is four above the start
C17_Witness ==
    /\ pc = "loop"
    /\ stopped = "Running"
    /\ lookups = 4
    /\ total_records > 0
    /\ faults.transient = 1
    /\ consecutive_404s > 0
    /\ current_bdns = start_bdns + 4

----------------------------------------------------------------------------
(* Properties of records without a usable reception date *)

\* the reception dates of the catalogue that are calendar dates
CalendarDates == {Date20240315, Date20250110}

\* the record has no fechaRecepcion, or one that is not a calendar date
NoUsableDate(d) == Get(d, "fechaRecepcion") \notin CalendarDates

\* C18: buffering a fetched record without a usable reception date changes no
\* buffer, no file and not total_records; the run goes on to the advance of
\* the cursor, through one more periodic save when total_records stands at a
\* multiple of SAVE_EVERY, and then to the next identifier; no row of such a
\* record is ever in a buffer or in a file
C18_NullYearExcluded ==
    /\ [][(pc = "fetched" /\ Truthy(data) /\ NoUsableDate(data[1])
              /\ stopped' # "UserCancelled") =>
             /\ pc' \in {"advance", "saving"}
             /\ pc' = "saving" =>
                   (total_records > 0 /\ total_records % SAVE_EVERY = 0)
             /\ stopped' = "Running"
             /\ dataframes_by_year' = dataframes_by_year
             /\ total_records' = total_records
             /\ disk' = disk]_vars
    /\ [][(pc = "saving" /\ stopped' # "UserCancelled") =>
             /\ pc' \in {"saving", "advance"}
             /\ stopped' = "Running"
             /\ data' = data
             /\ current_bdns' = current_bdns
             /\ total_records' = total_records]_vars
    /\ [][(pc = "advance" /\ Truthy(data) /\ NoUsableDate(data[1])
              /\ stopped' # "UserCancelled") =>
             /\ pc' = "loop"
             /\ stopped' = "Running"
             /\ current_bdns' = current_bdns + 1]_vars
    /\ [](\A i \in DOMAIN dataframes_by_year :
             \A k \in DOMAIN dataframes_by_year[i].df :
                 /\ ~NoUsableDate(dataframes_by_year[i].df[k])
                 /\ dataframes_by_year[i].year # NoneInt
                 /\ Get(dataframes_by_year[i].df[k], "year") = dataframes_by_year[i].year)
    /\ [](\A y \in DOMAIN disk :
             \A k \in DOMAIN disk[y] : ~NoUsableDate(disk[y][k]))

\* C18 witness: the first two lookups each returned a record without a usable
\* date; the run is at the third identifier with nothing buffered, nothing
\* counted and nothing written
C18_Witness ==
    /\ pc = "loop"
    /\ stopped = "Running"
    /\ lookups = 2
    /\ faults.transient = 0
    /\ faults.badbody = 0
    /\ consecutive_404s = 0
    /\ current_bdns = start_bdns + 2
    /\ total_records = 0
    /\ dataframes_by_year = <<>>
    /\ flush_log = <<>>

\* add_rows of the fetched record was called by the step being taken
BufferedStep == pc = "fetched" /\ Truthy(data) /\ pc' \in {"advance", "saving"}

\* the years whose buffer the step being taken created or changed
ChangedYears ==
    {y \in Range(Keys(dataframes_by_year')) :
        \/ ~HasYear(dataframes_by_year, y)
        \/ DfOf(dataframes_by_year', y) # DfOf(dataframes_by_year, y)}

\* every row of a buffer and of a file has the year of that buffer or file
YearMatchesPartition ==
    /\ \A i \in DOMAIN dataframes_by_year :
          \A k \in DOMAIN dataframes_by_year[i].df :
              dataframes_by_year[i].df[k].year = dataframes_by_year[i].year
    /\ \A y \in DOMAIN disk :
          \A k \in DOMAIN disk[y] : disk[y][k].year = y

\* C27 as stated: the rows flattened from a record all have the same year and
\* buffering them changes exactly one partition; every row of a buffer and of
\* a file has the year of that buffer or file
C27_Original ==
    /\ [][BufferedStep =>
             LET rows == transform_data(data[1])
             IN  /\ \A k \in DOMAIN rows : rows[k].year = rows[1].year
                 /\ Cardinality(ChangedYears) = 1]_vars
    /\ []YearMatchesPartition

\* C27 amended: the rows flattened from a record all have the same year;
\* when that year is not None, buffering them appends them all to the
\* partition of that year and changes no other, and when it is None no
\* partition is changed; every row of a buffer and of a file has the year of
\* that buffer or file
C27_OnePartition ==
    /\ [][BufferedStep =>
             LET rows == transform_data(data[1])
                 y == rows[1].year
                 old == IF HasYear(dataframes_by_year, y)
                        THEN DfOf(dataframes_by_year, y) ELSE <<>>
             IN  /\ \A k \in DOMAIN rows : rows[k].year = y
                 /\ y # NoneInt =>
                       /\ ChangedYears = {y}
                       /\ DfOf(dataframes_by_year', y) = old \o rows
                 /\ y = NoneInt => ChangedYears = {}]_vars
    /\ []YearMatchesPartition

\* C27 witness: a record of 98 rows of 2025 was buffered while the partition
\* of 2024 held rows, and a file holds rows too
C27_Witness ==
    /\ pc \in {"advance", "saving"}
    /\ Truthy(data)
    /\ Len(transform_data(data[1])) > 2
    /\ transform_data(data[1])[1].year = 2025
    /\ NonEmpty(dataframes_by_year, 2024)
    /\ NonEmpty(dataframes_by_year, 2025)
    /\ Len(DfOf(dataframes_by_year, 2025)) >= Len(transform_data(data[1]))
    /\ \E y \in DOMAIN disk : disk[y] # <<>>

----------------------------------------------------------------------------
(* Properties of saves of the same year by several processes *)

\* the save of p did not overlap the save of q: one had returned before the
\* other was called, or q has not been called
OneAfterTheOther(p, q) ==
    \/ q \in flushers[p].before
    \/ flushers[q].pc = "idle"
    \/ p \in flushers[q].before

RowIds(df) == {df[k].codigoBDNS : k \in DOMAIN df}

\* C19: once the save of a process has returned, and no save of another
\* process overlapped it, every identifier it was given is in the file,
\* whatever the other processes did before and after
C19_SequentialKeepsBoth ==
    \A p \in DOMAIN flushers :
        (/\ flushers[p].pc = "done"
         /\ \A q \in DOMAIN flushers \ {p} : OneAfterTheOther(p, q))
        => RowIds(flushers[p].rows) \subseteq RowIds(FileOf(disk, FlushYear))

\* C19 witness: two processes each read the existing file, merged their rows
\* into it and overwrote it; both saves have returned and the identifiers of
\* one of them are not in the file
C19_Witness ==
    /\ pc = "flushers"
    /\ \A p \in DOMAIN flushers : flushers[p].pc = "done" /\ flushers[p].exists
    /\ \E p \in DOMAIN flushers :
          ~(RowIds(flushers[p].rows) \subseteq RowIds(FileOf(disk, FlushYear)))

----------------------------------------------------------------------------
(* Properties of add_rows and of total_records *)

\* the rows of a list that carry the year y, in the order of the list
ListedForYear(rows, y) == SelectSeq(rows, LAMBDA r : Get(r, "year") = y)

YearsKnown == {2024, 2025}

RECURSIVE ClearedRows(_)
\* the number of rows that the saves of a log took out of the buffers
ClearedRows(obs) ==
    IF obs = <<>> THEN 0
    ELSE (IF Head(obs).ok THEN Len(Head(obs).rows) ELSE 0) + ClearedRows(Tail(obs))

RECURSIVE BufferedRows(_)
\* the number of rows in the buffers
BufferedRows(dfs) ==
    IF dfs = <<>> THEN 0 ELSE Len(Head(dfs).df) + BufferedRows(Tail(dfs))

\* C20: a call of add_rows appends to the buffer of each year the rows of that
\* year in the order of the list and creates no buffer for a year without
\* rows; total_records grows by the number of rows that carry a year; no
\* other step changes total_records, which is at all times the number of
\* rows in the buffers plus the number of rows that saves cleared from them
C20_AddRowsAppends ==
    /\ [][calls' # calls =>
             /\ \A y \in YearsKnown :
                   IF ListedForYear(caller_rows', y) = <<>>
                   THEN /\ HasYear(dataframes_by_year', y) = HasYear(dataframes_by_year, y)
                        /\ HasYear(dataframes_by_year, y) =>
                              DfOf(dataframes_by_year', y) = DfOf(dataframes_by_year, y)
                   ELSE /\ HasYear(dataframes_by_year', y)
                        /\ DfOf(dataframes_by_year', y) =
                              (IF HasYear(dataframes_by_year, y)
                               THEN DfOf(dataframes_by_year, y) ELSE <<>>)
                                  \o ListedForYear(caller_rows', y)
             /\ \A i \in DOMAIN dataframes_by_year' :
                   dataframes_by_year'[i].year \in YearsKnown
             /\ total_records' = total_records
                   + Cardinality({k \in DOMAIN caller_rows' :
                                     Get(caller_rows'[k], "year") \in YearsKnown})
             /\ disk' = disk]_vars
    /\ [][calls' = calls => total_records' = total_records]_vars
    /\ [](total_records = BufferedRows(dataframes_by_year) + ClearedRows(observed))

\* C20 witness: a list that mixes two years and a row without a year was
\* added to buffers that already held rows of the first year, after a save
\* had cleared rows; three of its four rows were counted
C20_Witness ==
    /\ pc = "caller"
    /\ caller_rows = MixedRows
    /\ \E e \in DOMAIN observed : observed[e].ok
    /\ HasYear(dataframes_by_year, 2024)
    /\ HasYear(dataframes_by_year, 2025)
    /\ Len(DfOf(dataframes_by_year, 2024)) > Len(ListedForYear(MixedRows, 2024))
    /\ Len(DfOf(dataframes_by_year, 2025)) = 1
    /\ total_records > BufferedRows(dataframes_by_year)
    /\ BufferedRows(dataframes_by_year) >= 4

----------------------------------------------------------------------------
(* Properties of the interrupt *)

\* the identifiers found in the rows of the files
PersistedIds ==
    UNION {{disk[y][k].codigoBDNS : k \in DOMAIN disk[y]} : y \in DOMAIN disk}

InsideLoop == pc \in {"loop", "fetched", "saving", "advance"}

\* the identifiers of the rows that were buffered when run left its loop
IdsAtStop ==
    UNION {{at_stop[i].df[k].codigoBDNS : k \in DOMAIN at_stop[i].df} :
              i \in DOMAIN at_stop}

----------------------------------------------------------------------------
(* Properties of the resume script *)

\* C12: when a run buffered the rows of identifier X and ended without X in
\* any file, the run that the resume script starts afterwards begins at X or
\* below it, so that it probes X again
C12_Original ==
    pc # "main" =>
        \A r \in DOMAIN earlier_runs :
            \A X \in earlier_runs[r].lost : start_bdns <= X

\* no lookup has been made by the scraper that the resume script created
BeforeFirstLookup == pc = "loop" /\ lookups = 0 /\ stopped = "Running"

\* C13: the scraper that the resume script creates starts one above the
\* highest identifier of all rows of all files (at 201 when the files hold
\* 100, 105 and 200) and at the fallback when there is no file, and the first
\* lookup of its run is for that identifier
C13_ResumePoint ==
    /\ [](BeforeFirstLookup =>
            /\ current_bdns = start_bdns
            /\ DOMAIN disk = {} => start_bdns = FALLBACK_START
            /\ DOMAIN disk # {} =>
                  /\ start_bdns - 1 \in PersistedIds
                  /\ \A id \in PersistedIds : id < start_bdns
            /\ PersistedIds = {100, 105, 200} => start_bdns = 201)
    /\ [][(lookups = 0 /\ lookups' = 1) =>
             /\ current_bdns = start_bdns
             /\ current_bdns' = start_bdns
             /\ Outcome(Response(FALSE, 200, data')) = "Found"
                   => data'[1].codigoBDNS = start_bdns]_vars

\* C13 witness: the files held 100, 105 and 200, the highest of them not in
\* the file of the latest year, and the first lookup was for 201
C13_Witness ==
    /\ pc = "fetched"
    /\ lookups = 1
    /\ PersistedIds = {100, 105, 200}
    /\ \A k \in DOMAIN disk[2025] : disk[2025][k].codigoBDNS # 200
    /\ current_bdns = 201

----------------------------------------------------------------------------
(* Properties of save_to_parquet *)

Saves == DOMAIN observed

Ids(df) == {df[k].codigoBDNS : k \in DOMAIN df}

UniqueIds(df) ==
    \A i, j \in DOMAIN df : df[i].codigoBDNS = df[j].codigoBDNS => i = j

\* C5 as stated: after every save that did not raise, whether it created the
\* file or merged into it, no two rows of the file share a codigoBDNS
C5_Original ==
    \A e \in Saves : observed[e].ok => UniqueIds(observed[e].after)

\* the position in df of the last row that carries identifier id
LastPos(df, id) ==
    CHOOSE k \in DOMAIN df : df[k].codigoBDNS = id /\ IsLastOfId(df, k)

\* C5 amended: after a save that merged into an existing file no two rows of
\* the file share a codigoBDNS: every identifier of existing-then-new is there
\* once, with the row that comes last for it in that sequence, whatever the
\* other fields are, and the rows keep the order of that sequence; a save that
\* created the file wrote the buffered rows as they were
C5_UniqueAfterMerge ==
    \A e \in Saves :
        LET o == observed[e]
            all == o.before \o o.rows
        IN  o.ok =>
              IF o.existed
              THEN /\ UniqueIds(o.after)
                   /\ Ids(o.after) = Ids(all)
                   /\ \A c \in DOMAIN o.after :
                         o.after[c] = all[LastPos(all, o.after[c].codigoBDNS)]
                   /\ \A c1, c2 \in DOMAIN o.after :
                         c1 < c2 => LastPos(all, o.after[c1].codigoBDNS)
                                       < LastPos(all, o.after[c2].codigoBDNS)
              ELSE o.after = o.rows

\* C5 witness: a merge into a file that held duplicates of an identifier, with
\* buffered rows that shared an identifier too
C5_Witness ==
    \E e \in Saves :
        /\ observed[e].ok
        /\ observed[e].existed
        /\ ~UniqueIds(observed[e].before)
        /\ ~UniqueIds(observed[e].rows)
        /\ UniqueIds(observed[e].after)

\* the next save of the same year that did not raise
NextSave(i, j) ==
    /\ i < j
    /\ observed[i].ok /\ observed[j].ok
    /\ observed[j].year = observed[i].year
    /\ \A m \in (i + 1)..(j - 1) :
          ~(observed[m].ok /\ observed[m].year = observed[i].year)

\* C6 as stated: saving the same rows twice in a row leaves the file with the
\* rows that saving them once left, whether or not the file existed before
C6_Original ==
    \A i, j \in Saves :
        (NextSave(i, j) /\ observed[j].rows = observed[i].rows)
            => observed[j].after = observed[i].after

\* C6 amended: saving the same rows twice in a row leaves the file with the
\* rows that saving them once left when the file existed before the first
\* save or no two of the rows share a codigoBDNS; in every case the second
\* save leaves one row for each identifier of the file, the last one
C6_IdempotentMerge ==
    \A i, j \in Saves :
        (NextSave(i, j) /\ observed[j].rows = observed[i].rows) =>
            LET once == observed[i].after
                twice == observed[j].after
            IN  /\ (observed[i].existed \/ UniqueIds(observed[i].rows)) => twice = once
                /\ UniqueIds(twice)
                /\ Ids(twice) = Ids(once)
                /\ \A c \in DOMAIN twice :
                      twice[c] = once[LastPos(once, twice[c].codigoBDNS)]

\* C6 witness: the same two rows of one record were merged twice in a row into
\* a file that existed, and the second merge changed nothing
C6_Witness ==
    \E i, j \in Saves :
        /\ NextSave(i, j)
        /\ observed[i].existed
        /\ observed[j].rows = observed[i].rows
        /\ Len(observed[i].rows) >= 2
        /\ observed[i].after # observed[i].before
        /\ observed[j].after = observed[i].after

\* C7: after a save that merged new rows into an existing file, every
\* identifier of the new rows is stored once, with the last of the new rows
\* that carry it, whatever the file held for it; the rows of the file with
\* other identifiers stay
C7_NewRowsWin ==
    \A e \in Saves :
        LET o == observed[e] IN
        (o.ok /\ o.existed) =>
            /\ \A k \in DOMAIN o.rows :
                  IsLastOfId(o.rows, k) =>
                      {r \in Range(o.after) : r.codigoBDNS = o.rows[k].codigoBDNS}
                          = {o.rows[k]}
            /\ \A k \in DOMAIN o.before :
                  (IsLastOfId(o.before, k) /\ o.before[k].codigoBDNS \notin Ids(o.rows))
                      => o.before[k] \in Range(o.after)

\* C7 witness: the file held identifier X with description v1, the new rows
\* carried X with v2, and the file holds v2 for X
C7_Witness ==
    \E e \in Saves :
        LET o == observed[e] IN
        /\ o.ok /\ o.existed
        /\ \E a \in DOMAIN o.before, b \in DOMAIN o.rows, c \in DOMAIN o.after :
              /\ o.before[a].codigoBDNS = o.rows[b].codigoBDNS
              /\ o.after[c].codigoBDNS = o.rows[b].codigoBDNS
              /\ o.before[a].descripcion = "v1"
              /\ o.rows[b].descripcion = "v2"
              /\ o.after[c].descripcion = "v2"

\* the rows of df whose identifier is not one of ids
Without(df, ids) == SelectSeq(df, LAMBDA r : r.codigoBDNS \notin ids)

\* the rows of df that are the last of their identifier
LastOfEachId(df) ==
    Unindexed(SelectSeq(Indexed(df), LAMBDA e : IsLastOfId(df, e.i)))

\* C26 as stated: after every save that did not raise, the identifiers of the
\* file are those it held before and those of the saved rows, and the rows
\* the file held for identifiers that are not among the saved rows are all
\* there as they were, in the same order
C26_Original ==
    \A e \in Saves :
        LET o == observed[e] IN
        o.ok =>
            /\ Ids(o.after) = Ids(o.before) \cup Ids(o.rows)
            /\ Without(o.after, Ids(o.rows)) = Without(o.before, Ids(o.rows))

\* C26 amended: after every save that did not raise, the identifiers of the
\* file are those it held before and those of the saved rows; for every
\* identifier of the file that is not among the saved rows, the last row the
\* file held for it is there as it was, these rows are in the order they had,
\* and the earlier rows the file held for such an identifier are gone
C26_MergeKeepsIdentifiers ==
    \A e \in Saves :
        LET o == observed[e] IN
        o.ok =>
            /\ Ids(o.after) = Ids(o.before) \cup Ids(o.rows)
            /\ Without(o.after, Ids(o.rows))
                  = LastOfEachId(Without(o.before, Ids(o.rows)))

\* C26 witness: the file held two rows of one record, rows of another
\* identifier were merged into it, and the file holds the second of the two
\* rows and the new identifier
C26_Witness ==
    \E e \in Saves :
        LET o == observed[e] IN
        /\ o.ok /\ o.existed
        /\ Ids(o.rows) # {}
        /\ Ids(o.before) \cap Ids(o.rows) = {}
        /\ Len(o.before) = 2
        /\ Ids(o.before) = {o.before[1].codigoBDNS}
        /\ o.before[1] # o.before[2]
        /\ Without(o.after, Ids(o.rows)) = <<o.before[2]>>
        /\ Ids(o.after) = Ids(o.before) \cup Ids(o.rows)

\* the step being taken is one call of save_to_parquet by the periodic save
\* that got past the early return
PeriodicSaveStep == pc = "saving" /\ Len(flush_log') = Len(flush_log) + 1

\* C29: a save of year y leaves the buffers and the files of the other years,
\* the keys of the dict, the cursor, the counters and the fetched record as
\* they were; when it does not raise, the buffer of y is empty and the file
\* of y holds the merged rows and nothing else: the last row of each
\* identifier of existing-then-new when the file existed, the buffered rows
\* when it did not; when it raises, nothing changes
C29_FlushFrame ==
    [][PeriodicSaveStep =>
          LET e == flush_log'[Len(flush_log')]
              y == e.year
              rows == DfOf(dataframes_by_year, y)
          IN  /\ y = Head(todo)
              /\ rows # <<>>
              /\ Keys(dataframes_by_year') = Keys(dataframes_by_year)
              /\ \A i \in DOMAIN dataframes_by_year :
                    dataframes_by_year[i].year # y =>
                        dataframes_by_year'[i] = dataframes_by_year[i]
              /\ DOMAIN disk' = DOMAIN disk \cup (IF e.ok THEN {y} ELSE {})
              /\ \A z \in DOMAIN disk : z # y => disk'[z] = disk[z]
              /\ current_bdns' = current_bdns
              /\ consecutive_404s' = consecutive_404s
              /\ total_records' = total_records
              /\ total_requests' = total_requests
              /\ data' = data
              /\ e.ok =>
                    /\ DfOf(dataframes_by_year', y) = <<>>
                    /\ disk'[y] = IF y \in DOMAIN disk
                                  THEN LastOfEachId(disk[y] \o rows)
                                  ELSE rows
              /\ ~e.ok =>
                    /\ dataframes_by_year' = dataframes_by_year
                    /\ disk' = disk]_vars

\* C29 witness: the periodic save has merged the partition of 2024 into its
\* file while the partition of 2025 still holds its rows and has no file
C29_Witness ==
    /\ pc = "saving"
    /\ flush_log # <<>>
    /\ LET e == flush_log[Len(flush_log)]
       IN  /\ e.phase = "periodic"
           /\ e.ok
           /\ e.existed
           /\ e.year = 2024
    /\ DfOf(dataframes_by_year, 2024) = <<>>
    /\ NonEmpty(dataframes_by_year, 2025)
    /\ 2025 \notin DOMAIN disk
    /\ total_records = SAVE_EVERY
    /\ current_bdns > start_bdns

\* the year is not a key of the dict, or its DataFrame is empty
EmptyOrAbsent(dfs, y) == \A i \in DOMAIN dfs : dfs[i].year = y => dfs[i].df = <<>>

\* C21: save_to_parquet(y) for a year whose buffer is empty or absent returns
\* the buffers, the files and the log as they were, whether or not the file
\* of y exists; and no step of the caller's saves creates or rewrites the
\* file of such a year or changes a buffer, a counter or the cursor for it
C21_EmptySaveIsNoOp ==
    /\ [](\A y \in StoreYears :
             EmptyOrAbsent(dataframes_by_year, y) =>
                 /\ SaveResult(SaveState, "call", y, TRUE) = SaveState
                 /\ SaveResult(SaveState, "call", y, FALSE) = SaveState)
    /\ [][calls' = calls =>
             /\ \A y \in StoreYears :
                   EmptyOrAbsent(dataframes_by_year, y) =>
                       /\ (y \in DOMAIN disk') = (y \in DOMAIN disk)
                       /\ FileOf(disk', y) = FileOf(disk, y)
                       /\ EmptyOrAbsent(dataframes_by_year', y)
                       /\ HasYear(dataframes_by_year', y) = HasYear(dataframes_by_year, y)
             /\ ((\A y \in StoreYears : EmptyOrAbsent(dataframes_by_year, y)) =>
                    observed' = observed)
             /\ total_records' = total_records
             /\ total_requests' = total_requests
             /\ consecutive_404s' = consecutive_404s
             /\ current_bdns' = current_bdns]_vars

\* C21 witness: the buffer of 2024 is empty after a save that wrote its file,
\* rows were buffered for it before, and 2025 was never buffered and has no
\* file: a save of either year is an early return
C21_Witness ==
    /\ pc = "caller"
    /\ total_records > 0
    /\ HasYear(dataframes_by_year, 2024)
    /\ DfOf(dataframes_by_year, 2024) = <<>>
    /\ ~HasYear(dataframes_by_year, 2025)
    /\ 2024 \in DOMAIN disk
    /\ 2025 \notin DOMAIN disk
    /\ \E e \in Saves : observed[e].ok /\ observed[e].year = 2024
    /\ ENABLED CallSave

----------------------------------------------------------------------------
(* Properties of transform_data *)

\* the length of a multi-valued field, 0 when it is absent
DimLen(d, k) == IF k \in DOMAIN d THEN Len(d[k]) ELSE 0

AtLeastOne(n) == IF n > 1 THEN n ELSE 1

\* the i-th element of a multi-valued field, {} when the field has none
ElementAt(d, k, i) == IF DimLen(d, k) = 0 THEN EmptyDict ELSE d[k][i]

ScalarColumns == BaseFields \cup {"organo_nivel1", "organo_nivel2", "organo_nivel3"}

\* the row holds the columns of one element of the product
RowOfElement(row, inst, benef, sector, region) ==
    /\ row.instrumento_descripcion = Get(inst, "descripcion")
    /\ row.tipoBeneficiario_descripcion = Get(benef, "descripcion")
    /\ row.sector_descripcion = Get(sector, "descripcion")
    /\ row.sector_codigo = Get(sector, "codigo")
    /\ row.region_descripcion = Get(region, "descripcion")

\* C8: transform_data returns max(a,1) * max(b,1) * max(c,1) * max(d,1) rows,
\* exactly one for each element of the product of the four fields; every row
\* has the scalar fields of the record and its year, and the columns of a row
\* are those and the five dimension columns
C8_CartesianRows ==
    pc = "returned" =>
        LET d == data[1]
            a == AtLeastOne(DimLen(d, "instrumentos"))
            b == AtLeastOne(DimLen(d, "tiposBeneficiarios"))
            c == AtLeastOne(DimLen(d, "sectores"))
            e == AtLeastOne(DimLen(d, "regiones"))
        IN  /\ Len(caller_rows) = a * b * c * e
            /\ \A i \in 1..a, j \in 1..b, k \in 1..c, l \in 1..e :
                  Cardinality({n \in DOMAIN caller_rows :
                      RowOfElement(caller_rows[n],
                                   ElementAt(d, "instrumentos", i),
                                   ElementAt(d, "tiposBeneficiarios", j),
                                   ElementAt(d, "sectores", k),
                                   ElementAt(d, "regiones", l))}) = 1
            /\ \A n \in DOMAIN caller_rows :
                  /\ DOMAIN caller_rows[n] = ScalarColumns \cup {"year"} \cup DimensionColumns
                  /\ \A f \in BaseFields : caller_rows[n][f] = Get(d, f)
                  /\ caller_rows[n].organo_nivel1 = Get(GetOr(d, "organo", EmptyDict), "nivel1")
                  /\ caller_rows[n].organo_nivel2 = Get(GetOr(d, "organo", EmptyDict), "nivel2")
                  /\ caller_rows[n].organo_nivel3 = Get(GetOr(d, "organo", EmptyDict), "nivel3")
                  /\ caller_rows[n].year =
                        (IF Get(d, "fechaRecepcion") = Date20240315 THEN 2024
                         ELSE IF Get(d, "fechaRecepcion") = Date20250110 THEN 2025
                         ELSE NoneInt)

\* C8 witness: 2 instruments, 1 beneficiary type, an empty list of sectors and
\* 1 region gave 2 rows of 2024 that differ only in instrumento_descripcion
C8_Witness ==
    /\ pc = "returned"
    /\ DimLen(data[1], "instrumentos") = 2
    /\ DimLen(data[1], "tiposBeneficiarios") = 1
    /\ "sectores" \in DOMAIN data[1] /\ data[1].sectores = <<>>
    /\ DimLen(data[1], "regiones") = 1
    /\ Len(caller_rows) = 2
    /\ caller_rows[1].year = 2024 /\ caller_rows[2].year = 2024
    /\ {f \in DOMAIN caller_rows[1] : caller_rows[1][f] # caller_rows[2][f]}
          = {"instrumento_descripcion"}

\* C14: for every record, whichever of its fields other than the identifier
\* are null or absent, transform_data returns, and returns at least one row
C14_Original ==
    pc \in {"returned", "raised"} => (pc = "returned" /\ Len(caller_rows) >= 1)


----------------------------------------------------------------------------
(* Properties of the columns *)

\* the columns of a flattened row
RowColumns == ScalarColumns \cup {"year"} \cup DimensionColumns

\* the columns the dashboard needs
RequiredColumns ==
    {"codigoBDNS", "fechaRecepcion", "descripcion", "presupuestoTotal",
     "organo_nivel1", "region_descripcion", "year", "abierto"}

\* C22: every row that transform_data returns for a fetched record has
\* exactly the scalar columns, the three organo columns, year and the five
\* dimension columns, whichever fields the record carries; every buffered row
\* has them, and every file holds at least one row and every row of it has
\* them, the columns the dashboard needs among them
C22_FixedColumns ==
    /\ (pc = "fetched" /\ Truthy(data) /\ ~TransformRaises(data[1])) =>
          LET rows == transform_data(data[1])
          IN  /\ rows # <<>>
              /\ \A n \in DOMAIN rows : DOMAIN rows[n] = RowColumns
    /\ \A i \in DOMAIN dataframes_by_year :
          \A k \in DOMAIN dataframes_by_year[i].df :
              DOMAIN dataframes_by_year[i].df[k] = RowColumns
    /\ \A y \in DOMAIN disk :
          /\ disk[y] # <<>>
          /\ \A k \in DOMAIN disk[y] :
                /\ DOMAIN disk[y][k] = RowColumns
                /\ RequiredColumns \subseteq DOMAIN disk[y][k]

\* C22 witness: the run wrote the file of 2025, and it holds a row of a record
\* without organo, abierto and presupuestoTotal
C22_Witness ==
    /\ pc = "done"
    /\ 2025 \in DOMAIN disk
    /\ \E e \in DOMAIN flush_log : flush_log[e].ok /\ flush_log[e].year = 2025
    /\ \E k \in DOMAIN disk[2025] :
          /\ disk[2025][k].codigoBDNS >= START_BDNS
          /\ disk[2025][k].abierto = NoneStr
          /\ disk[2025][k].organo_nivel1 = NoneStr
          /\ disk[2025][k].presupuestoTotal = NoneStr
          /\ disk[2025][k].year = 2025


----------------------------------------------------------------------------
(* Properties of the dashboard *)

\* the rows of all files
FileRows == UNION {{disk[y][k] : k \in DOMAIN disk[y]} : y \in DOMAIN disk}

\* row r of the data frame shows row x of a file: the same values in every
\* column but the date columns, and a reception date of the row's year
Shows(r, x) ==
    /\ DOMAIN r = DOMAIN x
    /\ \A c \in DOMAIN x \ DateColumns : r[c] = x[c]
    /\ r.fechaRecepcion.year = x.year

\* xs is ys with some rows left out
IsSubsequence(xs, ys) ==
    /\ \A i \in DOMAIN xs : \E k \in DOMAIN ys : ys[k] = xs[i]
    /\ \A i, j \in DOMAIN xs :
          i < j => \E k, l \in DOMAIN ys : k < l /\ ys[k] = xs[i] /\ ys[l] = xs[j]

\* C23: no step of the dashboard changes a file; the data frame that
\* load_all_data returned holds every identifier of the files once, with the
\* row that comes last for it in the concatenation of the files in one of the
\* orders glob may list them; apply_filters leaves the data frame it was
\* given as it was and returns some of its rows, in their order
C23_ReadOnlyDedup ==
    /\ [][disk' = disk]_vars
    /\ [](dashboard.pc \in {"loaded", "filtered", "raised"} =>
             /\ UniqueIds(dashboard.df)
             /\ Ids(dashboard.df) = {x.codigoBDNS : x \in FileRows}
             /\ \E order \in GlobOrders(disk) :
                   LET all == ConcatFiles(disk, order)
                   IN  \A i \in DOMAIN dashboard.df :
                          \E k \in DOMAIN all :
                              /\ Shows(dashboard.df[i], all[k])
                              /\ \A l \in (k + 1)..Len(all) :
                                     all[l].codigoBDNS # all[k].codigoBDNS)
    /\ [][dashboard.pc = "loaded" => dashboard'.df = dashboard.df]_vars
    /\ [](dashboard.pc = "filtered" =>
             IsSubsequence(dashboard.filtered_df, dashboard.df))

\* C23 witness: two files held four rows of three identifiers; the data
\* frame has three rows, and the filter on the year 2024 returned two of them
C23_Witness ==
    /\ pc = "dashboard"
    /\ dashboard.pc = "filtered"
    /\ disk = SampleDisk(200, 105)
    /\ Cardinality(FileRows) = 4
    /\ Len(dashboard.df) = 3
    /\ dashboard.filters = [years |-> {2024}]
    /\ Len(dashboard.filtered_df) = 2
    /\ \A i \in DOMAIN dashboard.filtered_df : dashboard.filtered_df[i].year = 2024

----------------------------------------------------------------------------
(* Properties of clean_all_files *)

\* the step being taken is one round of the for-loop, for the file of year y
CleansFile(y) == utility.pc = "cleaning" /\ utility.files # <<>> /\ Head(utility.files) = y

\* C31: when clean_all_files has returned, every file holds one row per
\* identifier: the rows that were the last of their identifier when the run
\* started, in the order they had, and no file was added or removed; a round
\* of its loop writes the file it is at only when two rows of it share an
\* identifier and leaves every other file as it is; a second run writes no
\* file and leaves the directory as the first run left it
C31_CleanKeepsLast ==
    /\ [](utility.pc = "returned" =>
            /\ DOMAIN disk = DOMAIN utility.starts[1]
            /\ \A y \in DOMAIN disk :
                  /\ UniqueIds(disk[y])
                  /\ disk[y] = LastOfEachId(utility.starts[1][y]))
    /\ [][\A y \in DOMAIN disk :
             /\ DOMAIN disk' = DOMAIN disk
             /\ disk'[y] # disk[y] => (CleansFile(y) /\ ~UniqueIds(disk[y]))
             /\ (CleansFile(y) /\ UniqueIds(disk[y])) =>
                   (disk' = disk /\ utility'.written = utility.written)
             /\ (CleansFile(y) /\ ~UniqueIds(disk[y])) =>
                   utility'.written
                       = Append(utility.written, [run |-> utility.runs, year |-> y])]_vars
    /\ [](\A e \in DOMAIN utility.written : utility.written[e].run = 1)
    /\ [](\A n \in DOMAIN utility.ends : utility.ends[n] = utility.ends[1])

\* C31 witness: the script was run twice on a directory whose file of 2024
\* held two rows of one record before another record and whose file of 2025
\* had no duplicates: the first run wrote the file of 2024 only
C31_Witness ==
    /\ utility.pc = "returned"
    /\ utility.runs = 2
    /\ Len(utility.ends) = 2
    /\ utility.written = <<[run |-> 1, year |-> 2024]>>
    /\ Len(utility.starts[1][2024]) = 3
    /\ Len(disk[2024]) = 2
    /\ 2025 \in DOMAIN disk
    /\ Len(disk[2025]) = 2
    /\ disk[2025] = utility.starts[1][2025]

----------------------------------------------------------------------------
(* Properties of check_progress *)

Min(S) == CHOOSE m \in S : \A x \in S : m <= x

\* the integers between the lowest and the highest identifier that no row holds
Absent(d) ==
    {n \in Min(AllBdns(d))..Max(AllBdns(d)) : n \notin AllBdns(d)}

\* the maximal runs of consecutive absent integers
MaximalRuns(d) ==
    {r \in (Absent(d) \X Absent(d)) :
        /\ r[1] <= r[2]
        /\ \A n \in r[1]..r[2] : n \in Absent(d)
        /\ (r[1] - 1) \notin Absent(d)
        /\ (r[2] + 1) \notin Absent(d)}

\* the maximal runs in increasing order
RunsInOrder(d) ==
    [k \in 1..Cardinality(MaximalRuns(d)) |->
        CHOOSE r \in MaximalRuns(d) :
            Cardinality({q \in MaximalRuns(d) : q[1] < r[1]}) = k - 1]

Reported == utility.pc = "returned" /\ utility.report.found

\* C32 as stated: check_progress returns the maximum identifier over all
\* partition files and reports the resume point max+1, the value
\* find_last_bdns computes on the same files; the gap ranges it reports are
\* exactly the maximal runs of consecutive absent integers between the
\* minimum and the maximum identifier, the reported total of missing numbers
\* is (max - min + 1) minus the number of distinct identifiers, and no gap
\* extends to the maximum.
C32_Original ==
    Reported =>
        /\ utility.report.returned = Max(AllBdns(disk))
        /\ utility.report.resume = Max(AllBdns(disk)) + 1
        /\ utility.report.resume = find_last_bdns(disk)
        /\ utility.report.shown = RunsInOrder(disk)
        /\ utility.report.total_missing =
               (Max(AllBdns(disk)) - Min(AllBdns(disk)) + 1) - Cardinality(AllBdns(disk))
        /\ \A k \in DOMAIN utility.report.shown :
               utility.report.shown[k][2] < Max(AllBdns(disk))

\* C32, amended: when at least one partition file exists, check_progress
\* returns the maximum identifier over all files and reports the resume point
\* max+1, the value find_last_bdns computes on the same files; it finds
\* exactly the maximal runs of consecutive absent integers between the minimum
\* and the maximum identifier, reports their number, lists the first
\* SHOWN_GAPS of them in increasing order and the number of the others; the
\* reported total of missing numbers covers every gap and is (max - min + 1)
\* minus the number of distinct identifiers, and no gap extends to the
\* maximum. With no partition file it reports nothing and returns None.
C32_ReportsFirstGaps ==
    utility.pc = "returned" =>
        /\ utility.report.found = (DOMAIN disk # {})
        /\ ~utility.report.found => utility.report = NoReport
        /\ utility.report.found =>
            LET runs == RunsInOrder(disk)
                shown == IF Len(runs) > SHOWN_GAPS THEN SHOWN_GAPS ELSE Len(runs)
            IN  /\ utility.report.returned = Max(AllBdns(disk))
                /\ utility.report.lowest = Min(AllBdns(disk))
                /\ utility.report.resume = Max(AllBdns(disk)) + 1
                /\ utility.report.resume = find_last_bdns(disk)
                /\ utility.report.unique = Cardinality(AllBdns(disk))
                /\ utility.report.gaps = Len(runs)
                /\ utility.report.shown = SubSeq(runs, 1, shown)
                /\ utility.report.more = Len(runs) - shown
                /\ utility.report.total_missing =
                       (Max(AllBdns(disk)) - Min(AllBdns(disk)) + 1)
                           - Cardinality(AllBdns(disk))
                /\ \A k \in DOMAIN runs : runs[k][2] < Max(AllBdns(disk))

\* a report on two files whose identifiers leave two gaps, one of them of two
\* numbers
C32_Witness ==
    /\ Reported
    /\ DOMAIN disk = {2024, 2025}
    /\ utility.report.shown =
           <<(<<START_BDNS + 1, START_BDNS + 1>>), (<<START_BDNS + 4, START_BDNS + 5>>)>>
    /\ utility.report.more = 0
    /\ utility.report.total_missing = 3
    /\ utility.report.returned = START_BDNS + 6
    /\ utility.report.resume = START_BDNS + 7

====
